SPECIFICATION Spec
CONSTANTS
    Configs = {"old", "new"}
    Applied = "old"
    Polls = {"poll"}
    MaxSaves = 2
PROPERTIES ButtonsReturn SavedTakesEffect
