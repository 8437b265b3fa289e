---------------------------- MODULE ForwardProofs ----------------------------
(***************************************************************************)
(* What Forward promises its host holds for every length of the request    *)
(* and of the answer, and for every order in which the handler, the        *)
(* goroutine, the host and the upstream take their steps.                  *)
(***************************************************************************)
EXTENDS Forward, TLAPS

(***************************************************************************)
(* The inductive invariant, in four parts.                                 *)
(***************************************************************************)
\* The handler may still take chunks; until it has read the first frame, that
\* one is in the inbox too.
Reading == pc \in {"first", "recv", "write"}
First == IF pc = "first" THEN 1 ELSE 0

\* A chunk is in one place: with the upstream, offered to the pipe's reader,
\* or in the inbox.  None of them is made up.
Counts ==
    /\ pc # "write" => offer = 0
    /\ pc = "first" => upGot = 0
    /\ upGot + offer <= sentBody
    /\ host = "new" => inbox = <<>> /\ sentBody = 0 /\ pc \in {"first", "done"}
    /\ Reading => \A i \in 1 .. Len(inbox) :
                      inbox[i] = "chunk" => upGot + offer + i <= sentBody + First
    /\ Reading /\ host = "body" => upGot + offer + Len(inbox) <= sentBody + First

\* What has been sent to the host before each place of the handler.
Started ==
    /\ Len(out) >= 1
    /\ out[1] = "start"
    /\ \A i \in 2 .. Len(out) : out[i] = "chunk"

Frames ==
    /\ pc \in {"first", "recv", "write", "consume", "await", "head"} => out = <<>> /\ answered = 0
    /\ pc \in {"read", "finish"} => Started /\ Len(out) = answered + 1
    /\ pc = "finish" => answer = "eof"
    /\ pc = "reply" => code \in Codes
    /\ pc = "reply" /\ code = "UPSTREAM_BODY_ERROR" => Started
    /\ pc = "reply" /\ code # "UPSTREAM_BODY_ERROR" => out = <<>>

\* Without the goroutine nothing reaches out to the upstream.
Untouched ==
    /\ pc = "first" => doPc = "none"
    /\ pc = "reply" => (RequestSent(code) <=> doPc # "none")
    /\ doPc = "none" => conn = "none" /\ ch = "empty" /\ pc \in {"first", "reply", "done"}

\* The handler comes past the request only over the host's body_end.
Finished ==
    /\ \A i \in 1 .. Len(inbox) : inbox[i] = "end" => host = "ended"
    /\ pc \in {"await", "head", "read", "finish"} => host = "ended"
    /\ pc = "reply" /\ code = "UPSTREAM_BODY_ERROR" => host = "ended"

IInv ==
    /\ TypeOK
    /\ Counts
    /\ Frames /\ FrameOrder /\ EndMeansWhole
    /\ Untouched /\ NotSentMeansUntouched
    /\ Finished /\ NoAnswerToUnfinished

(***************************************************************************)
(* Sequences.                                                              *)
(***************************************************************************)
LEMMA Appended ==
    ASSUME NEW S, NEW s \in Seq(S), NEW e \in S
    PROVE  /\ Append(s, e) \in Seq(S)
           /\ Len(Append(s, e)) = Len(s) + 1
           /\ \A i \in 1 .. Len(s) : Append(s, e)[i] = s[i]
           /\ Append(s, e)[Len(s) + 1] = e
    OBVIOUS

LEMMA Tailed ==
    ASSUME NEW S, NEW s \in Seq(S), s # <<>>
    PROVE  /\ Tail(s) \in Seq(S)
           /\ Len(Tail(s)) = Len(s) - 1
           /\ \A i \in 1 .. Len(Tail(s)) : Tail(s)[i] = s[i + 1]
           /\ Len(s) > 0 /\ Head(s) = s[1] /\ Head(s) \in S
    OBVIOUS

LEMMA EmptyOrNot ==
    ASSUME NEW S, NEW s \in Seq(S)
    PROVE  (s = <<>> <=> Len(s) = 0) /\ Len(s) \in Nat
    OBVIOUS

\* What the steps do to the inbox and to the frames sent.
LEMMA SentToInbox ==
    ASSUME TypeOK, NEW frame \in {"start", "chunk", "end", "odd"}, HostSends(frame)
    PROVE  /\ inbox' \in Seq({"start", "chunk", "end", "odd"})
           /\ Len(inbox') = Len(inbox) + 1 /\ Len(inbox) \in Nat
           /\ \A i \in 1 .. Len(inbox) : inbox'[i] = inbox[i]
           /\ inbox'[Len(inbox) + 1] = frame
<1>1. inbox \in Seq({"start", "chunk", "end", "odd"}) /\ inbox' = Append(inbox, frame)
    BY DEF TypeOK, HostSends
<1> QED
    BY <1>1, Appended, EmptyOrNot

LEMMA TakenFromInbox ==
    ASSUME TypeOK, NEW result, Recv(result)
    PROVE  /\ inbox' \in Seq({"start", "chunk", "end", "odd"})
           /\ Len(inbox) \in Nat
           /\ \/ /\ result \in {"start", "chunk", "end", "odd"}
                 /\ Len(inbox') = Len(inbox) - 1 /\ Len(inbox) > 0
                 /\ \A i \in 1 .. Len(inbox') : inbox'[i] = inbox[i + 1]
                 /\ inbox[1] = result
              \/ /\ result \in {"EOF", "cancelled"}
                 /\ inbox' = inbox
<1>1. inbox \in Seq({"start", "chunk", "end", "odd"})
    BY DEF TypeOK
<1>2. CASE result \in {"EOF", "cancelled"}
    BY <1>1, <1>2, EmptyOrNot DEF Recv
<1>3. CASE result \notin {"EOF", "cancelled"}
    <2>1. inbox # <<>> /\ result = Head(inbox) /\ inbox' = Tail(inbox)
        BY <1>3 DEF Recv, Received
    <2> QED
        BY <1>1, <2>1, Tailed, EmptyOrNot
<1> QED
    BY <1>2, <1>3

LEMMA ToldOneMore ==
    ASSUME TypeOK, NEW frame \in {"start", "chunk", "end"} \cup Codes, out' = Append(out, frame)
    PROVE  /\ out' \in Seq({"start", "chunk", "end"} \cup Codes)
           /\ Len(out') = Len(out) + 1 /\ Len(out) \in Nat
           /\ \A i \in 1 .. Len(out) : out'[i] = out[i]
           /\ out'[Len(out) + 1] = frame
<1>1. out \in Seq({"start", "chunk", "end"} \cup Codes)
    BY DEF TypeOK
<1> QED
    BY <1>1, Appended, EmptyOrNot

\* The three ways the frames grow: by the only one so far, by one more chunk,
\* by the last.
LEMMA FirstFrame ==
    ASSUME TypeOK, out = <<>>, NEW frame \in {"start"} \cup (Codes \ {"UPSTREAM_BODY_ERROR"}),
           out' = Append(out, frame)
    PROVE  FrameOrder' /\ Len(out') = 1 /\ out'[1] = frame
<1>1. Len(out') = 1 /\ out'[1] = frame
    BY ToldOneMore, EmptyOrNot DEF TypeOK
<1> QED
    BY <1>1 DEF FrameOrder, Codes

LEMMA NextFrame ==
    ASSUME TypeOK, Started, out' = Append(out, "chunk")
    PROVE  Started' /\ FrameOrder' /\ Len(out') = Len(out) + 1 /\ Len(out) \in Nat
<1>1. Started' /\ Len(out') = Len(out) + 1 /\ Len(out) \in Nat
    BY ToldOneMore DEF Started
<1>2. FrameOrder'
    BY <1>1 DEF FrameOrder, Started, Codes
<1> QED
    BY <1>1, <1>2

LEMMA LastFrame ==
    ASSUME TypeOK, Started, NEW frame \in {"end", "UPSTREAM_BODY_ERROR"}, out' = Append(out, frame)
    PROVE  /\ FrameOrder' /\ Len(out') = Len(out) + 1 /\ Len(out) \in Nat
           /\ \A i \in 1 .. Len(out) : out'[i] = out[i]
           /\ out'[Len(out')] = frame
<1>1. /\ Len(out') = Len(out) + 1 /\ Len(out) \in Nat /\ Len(out) >= 1
      /\ \A i \in 1 .. Len(out) : out'[i] = out[i]
      /\ out'[Len(out) + 1] = frame
    BY ToldOneMore DEF Started, Codes
<1>2. out'[1] = "start" /\ \A i \in 2 .. Len(out) : out'[i] = "chunk"
    BY <1>1 DEF Started
<1>3. FrameOrder'
    <2> SUFFICES ASSUME NEW i \in 1 .. Len(out')
                 PROVE  /\ out'[i] = "start" => i = 1
                        /\ out'[i] \in {"chunk", "end"} => i > 1 /\ out'[1] = "start"
                        /\ out'[i] = "end" => i = Len(out')
                        /\ out'[i] \in Codes =>
                               i = Len(out') /\ (i > 1 <=> out'[i] = "UPSTREAM_BODY_ERROR")
        BY DEF FrameOrder
    <2>1. CASE i = 1
        BY <1>1, <1>2, <2>1 DEF Codes
    <2>2. CASE i \in 2 .. Len(out)
        BY <1>2, <2>2 DEF Codes
    <2>3. CASE i = Len(out) + 1
        BY <1>1, <1>2, <2>3 DEF Codes
    <2> QED
        BY <1>1, <2>1, <2>2, <2>3
<1> QED
    BY <1>1, <1>3

\* The chunks.
LEMMA CountsStep ==
    ASSUME TypeOK, Counts, [Next]_vars
    PROVE  Counts'
<1> USE DEF TypeOK, Starts, Counts, Reading, First, pipeVars, doVars, upVars, answerVars
<1>1. CASE HostStart
    <2>1. PICK frame \in {"start", "odd"} : HostSends(frame)
        BY <1>1 DEF HostStart
    <2>2. inbox = <<>> /\ sentBody = 0 /\ sentBody' = 0 /\ host' = "body"
        BY <1>1 DEF HostStart
    <2>3. Len(inbox') = 1 /\ inbox'[1] # "chunk"
        BY <2>1, <2>2, SentToInbox
    <2>4. UNCHANGED <<pc, offer, upGot>>
        BY <2>1 DEF HostSends
    <2>5. pc \in {"first", "done"} /\ offer = 0 /\ upGot + offer <= 0 /\ (pc = "first" => upGot = 0)
        BY <1>1 DEF HostStart
    <2>6. \A i \in 1 .. Len(inbox') : inbox'[i] # "chunk"
        BY <2>3
    <2> QED
        BY <2>2, <2>3, <2>4, <2>5, <2>6
<1>2. CASE HostChunk
    <2>1. HostSends("chunk")
        BY <1>2 DEF HostChunk
    <2> QED
        BY <1>2, <2>1, SentToInbox DEF HostChunk, HostSends
<1>3. CASE HostEnd
    BY <1>3 DEF HostEnd, HostSends
<1>4. CASE HostBreaksOff
    BY <1>4 DEF HostBreaksOff, HostSends
<1>5. CASE HostCancels
    BY <1>5 DEF HostCancels, hostVars
<1>6. CASE ReceiveStart
    BY <1>6 DEF ReceiveStart, hostVars, Recv, Received, Return, Fail
<1>7. CASE ReceiveBody
    BY <1>7 DEF ReceiveBody, hostVars, Recv, Received, Return, Fail, EndsBody, Closed
<1>8. CASE WriteReturns
    BY <1>8 DEF WriteReturns, hostVars, Fail
<1>9. CASE ConsumeBodyEnd
    BY <1>9 DEF ConsumeBodyEnd, hostVars, Recv, Received, Fail, EndsBody
<1>10. CASE ReceiveResult
    BY <1>10 DEF ReceiveResult, hostVars, Fail
<1>11. CASE Reply
    BY <1>11 DEF Reply, hostVars, AfterReply
<1>12. CASE SendHead
    BY <1>12 DEF SendHead, hostVars, Return
<1>13. ASSUME NEW n \in 0 .. 1, NEW err \in {"open", "eof", "broken"}, RelayChunk(n, err)
       PROVE  Counts'
    BY <1>13 DEF RelayChunk, hostVars, Return, Fail
<1>14. CASE SendEnd
    BY <1>14 DEF SendEnd, hostVars, Return
<1>15. CASE Connect
    BY <1>15 DEF Connect, hostVars
<1>16. CASE TakeChunk
    BY <1>16 DEF TakeChunk, hostVars
<1>17. CASE TakeEnd
    BY <1>17 DEF TakeEnd, hostVars
<1>18. CASE Answer
    BY <1>18 DEF Answer, hostVars
<1>19. CASE Breaks
    BY <1>19 DEF Breaks, hostVars
<1>20. CASE SendResult
    BY <1>20 DEF SendResult, hostVars, ChanReady
<1>21. CASE UNCHANGED vars
    BY <1>21 DEF vars
<1> QED
    BY <1>1, <1>2, <1>3, <1>4, <1>5, <1>6, <1>7, <1>8, <1>9, <1>10, <1>11,
       <1>12, <1>13, <1>14, <1>15, <1>16, <1>17, <1>18, <1>19, <1>20, <1>21
       DEF Next, HostStep, HandlerStep, DoStep

\* The types; Counts keeps offer and upGot within their bounds.
LEMMA TypeStep ==
    ASSUME TypeOK, Counts, Frames, [Next]_vars
    PROVE  TypeOK'
<1> USE DEF TypeOK, Starts, pipeVars, doVars, upVars, answerVars
<1>1. CASE HostStart
    <2>1. PICK frame \in {"start", "odd"} : HostSends(frame)
        BY <1>1 DEF HostStart
    <2> QED
        BY <1>1, <2>1, SentToInbox DEF HostStart, HostSends
<1>2. CASE HostChunk
    <2>1. HostSends("chunk")
        BY <1>2 DEF HostChunk
    <2>2. inbox' \in Seq({"start", "chunk", "end", "odd"})
        BY <2>1, SentToInbox
    <2>3. sentBody' \in 0 .. MaxChunks
        BY <1>2, ForwardAssumption DEF HostChunk
    <2> QED
        BY <1>2, <2>1, <2>2, <2>3 DEF HostChunk, HostSends
<1>3. CASE HostEnd
    BY <1>3 DEF HostEnd, HostSends
<1>4. CASE HostBreaksOff
    <2>1. CASE HostSends("odd")
        BY <1>4, <2>1, SentToInbox DEF HostBreaksOff, HostSends
    <2>2. CASE UNCHANGED <<start, inbox, ctxDone, pc, code, out,
                             pipeVars, doVars, upVars, answerVars>>
        BY <1>4, <2>2 DEF HostBreaksOff
    <2> QED
        BY <1>4, <2>1, <2>2 DEF HostBreaksOff
<1>5. CASE HostCancels
    BY <1>5 DEF HostCancels, hostVars
<1>6. CASE ReceiveStart
    <2>1. PICK result \in Received : Recv(result)
        BY <1>6 DEF ReceiveStart
    <2>2. inbox' \in Seq({"start", "chunk", "end", "odd"})
        BY <2>1, TakenFromInbox
    <2>3. /\ pc' \in {"done", "reply", "recv", "consume"}
          /\ ctxDone' \in BOOLEAN /\ code' \in Codes \cup {"none"}
        BY <1>6 DEF ReceiveStart, Return, Fail, Codes
    <2>4. /\ pipeW' \in {"open", "eof", "error"} /\ pipeR' \in {"open", "closed"} /\ offer' = offer
          /\ doPc' \in {"none", "connect", "exchange", "sendResp", "sendErr", "ended"}
          /\ ch' = ch /\ conn' = conn
        BY <1>6 DEF ReceiveStart
    <2> QED
        BY <1>6, <2>2, <2>3, <2>4 DEF ReceiveStart, hostVars
<1>7. CASE ReceiveBody
    <2>1. PICK result \in Received : Recv(result)
        BY <1>7 DEF ReceiveBody
    <2>2. inbox' \in Seq({"start", "chunk", "end", "odd"})
        BY <2>1, TakenFromInbox
    <2>3. /\ pc' \in {"write", "await", "reply"}
          /\ ctxDone' = ctxDone /\ code' \in Codes \cup {"none"}
          /\ pipeW' \in {"open", "eof", "error"} /\ offer' \in 0 .. 1
        BY <1>7 DEF ReceiveBody, Fail, Closed, Counts, Codes
    <2> QED
        BY <1>7, <2>2, <2>3 DEF ReceiveBody, hostVars
<1>8. CASE WriteReturns
    BY <1>8 DEF WriteReturns, hostVars, Fail, Codes
<1>9. CASE ConsumeBodyEnd
    BY <1>9 DEF ConsumeBodyEnd, hostVars, Recv, Received, Fail, EndsBody, Codes
<1>10. CASE ReceiveResult
    BY <1>10 DEF ReceiveResult, hostVars, Fail, Codes
<1>11. CASE Reply
    <2>1. out' \in Seq({"start", "chunk", "end"} \cup Codes)
        BY <1>11, ToldOneMore DEF Reply, Frames
    <2> QED
        BY <1>11, <2>1 DEF Reply, hostVars, AfterReply
<1>12. CASE SendHead
    <2>1. out' \in Seq({"start", "chunk", "end"} \cup Codes)
        BY <1>12, ToldOneMore DEF SendHead
    <2>2. CASE ctxDone
        BY <1>12, <2>1, <2>2 DEF SendHead, hostVars, Return
    <2>3. CASE ~ctxDone
        BY <1>12, <2>1, <2>3 DEF SendHead, hostVars
    <2> QED
        BY <2>2, <2>3
<1>13. ASSUME NEW n \in 0 .. 1, NEW err \in {"open", "eof", "broken"}, RelayChunk(n, err)
       PROVE  TypeOK'
    <2>1. out' \in Seq({"start", "chunk", "end"} \cup Codes)
        BY <1>13, ToldOneMore DEF RelayChunk
    <2>2. answered' \in 0 .. MaxAnswer /\ answer' \in {"open", "eof", "broken"}
        BY <1>13, ForwardAssumption DEF RelayChunk
    <2>3. /\ pc' \in {"done", "read", "finish", "reply"}
          /\ ctxDone' \in BOOLEAN /\ code' \in Codes \cup {"none"}
          /\ conn' \in {"none", "open", "closed"}
        BY <1>13 DEF RelayChunk, Return, Fail, Codes
    <2> QED
        BY <1>13, <2>1, <2>2, <2>3 DEF RelayChunk, hostVars
<1>14. CASE SendEnd
    <2>1. out' \in Seq({"start", "chunk", "end"} \cup Codes)
        BY <1>14, ToldOneMore DEF SendEnd
    <2> QED
        BY <1>14, <2>1 DEF SendEnd, hostVars, Return
<1>15. CASE Connect
    BY <1>15 DEF Connect, hostVars
<1>16. CASE TakeChunk
    <2>1. upGot' \in 0 .. MaxChunks
        BY <1>16, ForwardAssumption DEF TakeChunk, Counts
    <2> QED
        BY <1>16, <2>1 DEF TakeChunk, hostVars
<1>17. CASE TakeEnd
    BY <1>17 DEF TakeEnd, hostVars
<1>18. CASE Answer
    BY <1>18 DEF Answer, hostVars
<1>19. CASE Breaks
    BY <1>19 DEF Breaks, hostVars
<1>20. CASE SendResult
    BY <1>20 DEF SendResult, hostVars, ChanReady
<1>21. CASE UNCHANGED vars
    BY <1>21 DEF vars
<1> QED
    BY <1>1, <1>2, <1>3, <1>4, <1>5, <1>6, <1>7, <1>8, <1>9, <1>10, <1>11,
       <1>12, <1>13, <1>14, <1>15, <1>16, <1>17, <1>18, <1>19, <1>20, <1>21
       DEF Next, HostStep, HandlerStep, DoStep

\* The frames: only Reply, SendHead, RelayChunk and SendEnd add one.
LEMMA FramesStep ==
    ASSUME TypeOK, Frames, FrameOrder, EndMeansWhole, [Next]_vars
    PROVE  (Frames /\ FrameOrder /\ EndMeansWhole)'
<1> USE DEF TypeOK, Codes, Frames, Started, FrameOrder, EndMeansWhole, Told,
           pipeVars, doVars, upVars, answerVars
<1>1. CASE HostStart
    BY <1>1 DEF HostStart, HostSends
<1>2. CASE HostChunk
    BY <1>2 DEF HostChunk, HostSends
<1>3. CASE HostEnd
    BY <1>3 DEF HostEnd, HostSends
<1>4. CASE HostBreaksOff
    BY <1>4 DEF HostBreaksOff, HostSends
<1>5. CASE HostCancels
    BY <1>5 DEF HostCancels
<1>6. CASE ReceiveStart
    BY <1>6 DEF ReceiveStart, Return, Fail
<1>7. CASE ReceiveBody
    BY <1>7 DEF ReceiveBody, Return, Fail, EndsBody
<1>8. CASE WriteReturns
    BY <1>8 DEF WriteReturns, Fail
<1>9. CASE ConsumeBodyEnd
    BY <1>9 DEF ConsumeBodyEnd, Fail, EndsBody
<1>10. CASE ReceiveResult
    BY <1>10 DEF ReceiveResult, Fail
<1>11. CASE Reply
    <2>1. CASE ctxDone
        BY <1>11, <2>1 DEF Reply, AfterReply
    <2>2. CASE ~ctxDone
        <3>1. code \in Codes /\ out' = Append(out, code) /\ pc' = "done"
            BY <1>11, <2>2 DEF Reply, AfterReply
        <3>2. CASE code = "UPSTREAM_BODY_ERROR"
            <4>1. Started
                BY <1>11, <3>2 DEF Reply
            <4>2. FrameOrder' /\ ~Told("end")'
                BY <3>1, <3>2, <4>1, LastFrame
            <4> QED
                BY <3>1, <4>2
        <3>3. CASE code # "UPSTREAM_BODY_ERROR"
            <4>1. out = <<>>
                BY <1>11, <3>3 DEF Reply
            <4>2. FrameOrder' /\ ~Told("end")'
                BY <3>1, <3>3, <4>1, FirstFrame
            <4> QED
                BY <3>1, <4>2
        <3> QED
            BY <3>2, <3>3
    <2> QED
        BY <2>1, <2>2
<1>12. CASE SendHead
    <2>1. CASE ctxDone
        BY <1>12, <2>1 DEF SendHead, Return
    <2>2. CASE ~ctxDone
        <3>1. /\ out = <<>> /\ answered = 0
              /\ out' = Append(out, "start") /\ pc' = "read" /\ answered' = 0
            BY <1>12, <2>2 DEF SendHead
        <3>2. FrameOrder' /\ Len(out') = 1 /\ out'[1] = "start"
            BY <3>1, FirstFrame
        <3> QED
            BY <3>1, <3>2
    <2> QED
        BY <2>1, <2>2
<1>13. ASSUME NEW n \in 0 .. 1, NEW err \in {"open", "eof", "broken"}, RelayChunk(n, err)
       PROVE  (Frames /\ FrameOrder /\ EndMeansWhole)'
    <2>1. Started /\ Len(out) = answered + 1 /\ ~Told("end")
        BY <1>13 DEF RelayChunk
    <2>2. CASE ctxDone /\ n > 0
        BY <1>13, <2>1, <2>2 DEF RelayChunk, Return
    <2>3. CASE ~(ctxDone /\ n > 0)
        <3>1. /\ out' = IF n > 0 THEN Append(out, "chunk") ELSE out
              /\ answered' = answered + n
              /\ answer' = err
              /\ \/ err = "open" /\ pc' = "read"
                 \/ err = "eof" /\ pc' = "finish"
                 \/ err = "broken" /\ pc' = "reply" /\ code' = "UPSTREAM_BODY_ERROR"
            BY <1>13, <2>3 DEF RelayChunk, Fail, Relayed
        <3>2. Started' /\ FrameOrder' /\ Len(out') = Len(out) + n
            BY <2>1, <3>1, NextFrame, EmptyOrNot
        <3>3. Len(out') = answered' + 1 /\ ~Told("end")'
            BY <2>1, <3>1, <3>2
        <3> QED
            BY <3>1, <3>2, <3>3
    <2> QED
        BY <2>2, <2>3
<1>14. CASE SendEnd
    <2>1. CASE ctxDone
        BY <1>14, <2>1 DEF SendEnd, Return
    <2>2. CASE ~ctxDone
        <3>1. /\ Started /\ Len(out) = answered + 1 /\ answer = "eof"
              /\ out' = Append(out, "end") /\ pc' = "done" /\ UNCHANGED <<answered, answer>>
            BY <1>14, <2>2 DEF SendEnd, Return
        <3>2. FrameOrder' /\ Len(out') = Len(out) + 1
            BY <3>1, LastFrame
        <3> QED
            BY <3>1, <3>2
    <2> QED
        BY <2>1, <2>2
<1>15. CASE Connect
    BY <1>15 DEF Connect
<1>16. CASE TakeChunk
    BY <1>16 DEF TakeChunk
<1>17. CASE TakeEnd
    BY <1>17 DEF TakeEnd
<1>18. CASE Answer
    BY <1>18 DEF Answer
<1>19. CASE Breaks
    BY <1>19 DEF Breaks
<1>20. CASE SendResult
    BY <1>20 DEF SendResult, ChanReady
<1>21. CASE UNCHANGED vars
    BY <1>21 DEF vars
<1> QED
    BY <1>1, <1>2, <1>3, <1>4, <1>5, <1>6, <1>7, <1>8, <1>9, <1>10, <1>11,
       <1>12, <1>13, <1>14, <1>15, <1>16, <1>17, <1>18, <1>19, <1>20, <1>21
       DEF Next, HostStep, HandlerStep, DoStep

\* The goroutine is started by ReceiveStart, and once started it is never
\* taken for one that was not.
LEMMA UntouchedStep ==
    ASSUME TypeOK, Frames, Untouched, NotSentMeansUntouched, [Next]_vars
    PROVE  (Untouched /\ NotSentMeansUntouched)'
<1> USE DEF TypeOK, Codes, Frames, Started, Untouched, NotSentMeansUntouched, RequestSent,
           pipeVars, doVars, upVars, answerVars
<1>1. CASE HostStart
    BY <1>1 DEF HostStart, HostSends
<1>2. CASE HostChunk
    BY <1>2 DEF HostChunk, HostSends
<1>3. CASE HostEnd
    BY <1>3 DEF HostEnd, HostSends
<1>4. CASE HostBreaksOff
    BY <1>4 DEF HostBreaksOff, HostSends
<1>5. CASE HostCancels
    BY <1>5 DEF HostCancels
<1>6. CASE ReceiveStart
    BY <1>6 DEF ReceiveStart, Return, Fail
<1>7. CASE ReceiveBody
    BY <1>7 DEF ReceiveBody, Return, Fail, EndsBody
<1>8. CASE WriteReturns
    BY <1>8 DEF WriteReturns, Fail
<1>9. CASE ConsumeBodyEnd
    BY <1>9 DEF ConsumeBodyEnd, Fail, EndsBody
<1>10. CASE ReceiveResult
    BY <1>10 DEF ReceiveResult, Fail
<1>11. CASE Reply
    <2>1. /\ pc' = "done" /\ UNCHANGED <<doPc, ch>>
          /\ doPc = "none" => conn' = "none"
          /\ code \in Codes
        BY <1>11 DEF Reply, AfterReply
    <2>2. CASE ctxDone
        BY <1>11, <2>1, <2>2 DEF Reply
    <2>3. CASE ~ctxDone
        <3>1. out' = Append(out, code)
            BY <1>11, <2>3 DEF Reply
        <3>2. NotSentMeansUntouched'
            BY <1>11, <2>1, <3>1, ToldOneMore DEF Reply
        <3> QED
            BY <2>1, <3>2
    <2> QED
        BY <2>2, <2>3
<1>12. CASE SendHead
    BY <1>12 DEF SendHead, Return
<1>13. ASSUME NEW n \in 0 .. 1, NEW err \in {"open", "eof", "broken"}, RelayChunk(n, err)
       PROVE  (Untouched /\ NotSentMeansUntouched)'
    <2>1. doPc # "none" /\ doPc' = doPc /\ pc' # "first"
        BY <1>13 DEF RelayChunk, Return, Fail
    <2>2. pc' = "reply" => RequestSent(code')
        BY <1>13 DEF RelayChunk, Return, Fail
    <2>3. CASE out' = out
        BY <2>1, <2>2, <2>3
    <2>4. CASE out' = Append(out, "chunk")
        <3>1. NotSentMeansUntouched'
            BY <2>1, <2>4, ToldOneMore
        <3> QED
            BY <2>1, <2>2, <3>1
    <2> QED
        BY <1>13, <2>3, <2>4 DEF RelayChunk
<1>14. CASE SendEnd
    BY <1>14 DEF SendEnd, Return
<1>15. CASE Connect
    BY <1>15 DEF Connect
<1>16. CASE TakeChunk
    BY <1>16 DEF TakeChunk
<1>17. CASE TakeEnd
    BY <1>17 DEF TakeEnd
<1>18. CASE Answer
    BY <1>18 DEF Answer
<1>19. CASE Breaks
    BY <1>19 DEF Breaks
<1>20. CASE SendResult
    BY <1>20 DEF SendResult, ChanReady
<1>21. CASE UNCHANGED vars
    BY <1>21 DEF vars
<1> QED
    BY <1>1, <1>2, <1>3, <1>4, <1>5, <1>6, <1>7, <1>8, <1>9, <1>10, <1>11,
       <1>12, <1>13, <1>14, <1>15, <1>16, <1>17, <1>18, <1>19, <1>20, <1>21
       DEF Next, HostStep, HandlerStep, DoStep

\* body_end comes from a host that has ended, and a host that has ended
\* takes no further step.
LEMMA FinishedStep ==
    ASSUME TypeOK, Frames, Finished, NoAnswerToUnfinished, [Next]_vars
    PROVE  (Finished /\ NoAnswerToUnfinished)'
<1> USE DEF TypeOK, Frames, Started, Finished, NoAnswerToUnfinished, Told,
           pipeVars, doVars, upVars, answerVars
<1>1. CASE HostStart
    BY <1>1 DEF HostStart, HostSends
<1>2. CASE HostChunk
    BY <1>2 DEF HostChunk, HostSends
<1>3. CASE HostEnd
    BY <1>3 DEF HostEnd, HostSends
<1>4. CASE HostBreaksOff
    <2>1. CASE HostSends("odd")
        BY <1>4, <2>1, SentToInbox DEF HostBreaksOff, HostSends
    <2>2. CASE UNCHANGED <<start, inbox, ctxDone, pc, code, out,
                             pipeVars, doVars, upVars, answerVars>>
        BY <1>4, <2>2 DEF HostBreaksOff
    <2> QED
        BY <1>4, <2>1, <2>2 DEF HostBreaksOff
<1>5. CASE HostCancels
    BY <1>5 DEF HostCancels, hostVars
<1>6. CASE ReceiveStart
    BY <1>6 DEF ReceiveStart, hostVars, Recv, Received, Return, Fail
<1>7. CASE ReceiveBody
    BY <1>7 DEF ReceiveBody, hostVars, Recv, Received, Return, Fail, EndsBody
<1>8. CASE WriteReturns
    BY <1>8 DEF WriteReturns, hostVars, Fail
<1>9. CASE ConsumeBodyEnd
    BY <1>9 DEF ConsumeBodyEnd, hostVars, Recv, Received, Fail, EndsBody
<1>10. CASE ReceiveResult
    BY <1>10 DEF ReceiveResult, hostVars, Fail
<1>11. CASE Reply
    <2>1. pc' = "done" /\ UNCHANGED <<inbox, host>>
        BY <1>11 DEF Reply, AfterReply, hostVars
    <2>2. CASE out' = out
        BY <2>1, <2>2
    <2>3. CASE out' = Append(out, code)
        <3>1. code \in Codes
            BY <1>11 DEF Reply
        <3>2. Told("start")' => Told("start")
            BY <2>3, <3>1, ToldOneMore DEF Codes
        <3> QED
            BY <2>1, <3>2
    <2> QED
        BY <1>11, <2>2, <2>3 DEF Reply
<1>12. CASE SendHead
    BY <1>12 DEF SendHead, hostVars, Return
<1>13. ASSUME NEW n \in 0 .. 1, NEW err \in {"open", "eof", "broken"}, RelayChunk(n, err)
       PROVE  (Finished /\ NoAnswerToUnfinished)'
    BY <1>13 DEF RelayChunk, hostVars, Return, Fail
<1>14. CASE SendEnd
    BY <1>14 DEF SendEnd, hostVars, Return
<1>15. CASE Connect
    BY <1>15 DEF Connect, hostVars
<1>16. CASE TakeChunk
    BY <1>16 DEF TakeChunk, hostVars
<1>17. CASE TakeEnd
    BY <1>17 DEF TakeEnd, hostVars
<1>18. CASE Answer
    BY <1>18 DEF Answer, hostVars
<1>19. CASE Breaks
    BY <1>19 DEF Breaks, hostVars
<1>20. CASE SendResult
    BY <1>20 DEF SendResult, hostVars, ChanReady
<1>21. CASE UNCHANGED vars
    BY <1>21 DEF vars
<1> QED
    BY <1>1, <1>2, <1>3, <1>4, <1>5, <1>6, <1>7, <1>8, <1>9, <1>10, <1>11,
       <1>12, <1>13, <1>14, <1>15, <1>16, <1>17, <1>18, <1>19, <1>20, <1>21
       DEF Next, HostStep, HandlerStep, DoStep

(***************************************************************************)
(* The theorems.                                                           *)
(***************************************************************************)
LEMMA Start == Init => IInv
<1> SUFFICES ASSUME Init PROVE IInv
    OBVIOUS
<1> USE DEF Init
<1>1. /\ inbox \in Seq({"start", "chunk", "end", "odd"})
      /\ out \in Seq({"start", "chunk", "end"} \cup Codes)
    OBVIOUS
<1>2. TypeOK
    <2>1. /\ sentBody \in 0 .. MaxChunks /\ upGot \in 0 .. MaxChunks
          /\ answered \in 0 .. MaxAnswer /\ offer \in 0 .. 1
        BY ForwardAssumption
    <2>2. ctxDone \in BOOLEAN /\ upEnd \in BOOLEAN
        OBVIOUS
    <2> QED
        BY <1>1, <2>1, <2>2, Zenon DEF TypeOK
<1>3. Counts
    BY DEF Counts, Reading
<1>4. Frames /\ FrameOrder /\ EndMeansWhole
    BY DEF Frames, FrameOrder, EndMeansWhole, Told
<1>5. Untouched /\ NotSentMeansUntouched
    BY DEF Untouched, NotSentMeansUntouched
<1>6. Finished /\ NoAnswerToUnfinished
    BY DEF Finished, NoAnswerToUnfinished, Told
<1> QED
    BY <1>2, <1>3, <1>4, <1>5, <1>6 DEF IInv

LEMMA Invariant == Spec => []IInv
<1>1. ASSUME IInv, [Next]_vars PROVE IInv'
    BY <1>1, TypeStep, CountsStep, FramesStep, UntouchedStep, FinishedStep DEF IInv
<1> QED
    BY Start, <1>1, PTL DEF Spec

\* Every variable keeps its shape: at most one Write of the pipe is under way
\* (forward.go:89-108), and the upstream gets no more chunks than the request
\* may have.
THEOREM TypeCorrect == Spec => []TypeOK
<1>1. IInv => TypeOK
    BY DEF IInv
<1> QED
    BY <1>1, Invariant, PTL

\* The frames Forward sends (forward.go:121-165) tell the host exactly one
\* outcome: an error alone, or a start, chunks, and an End or one error.
THEOREM FramesInOrder == Spec => []FrameOrder
<1>1. IInv => FrameOrder
    BY DEF IInv
<1> QED
    BY <1>1, Invariant, PTL

\* After End (forward.go:145-152) the host has as many chunks as were read from
\* the upstream, up to a clean end of the answer's body.
THEOREM EndIsWhole == Spec => []EndMeansWhole
<1>1. IInv => EndMeansWhole
    BY DEF IInv
<1> QED
    BY <1>1, Invariant, PTL

\* An error with request_sent = false (forward.go:20-33) is only sent, and
\* stays, without a goroutine that could have reached the upstream.
THEOREM NotSentIsUntouched == Spec => []NotSentMeansUntouched
<1>1. IInv => NotSentMeansUntouched
    BY DEF IInv
<1> QED
    BY <1>1, Invariant, PTL

\* The head of an answer (forward.go:122-132) is only sent to a host that has
\* ended its request, however early the upstream answered.
THEOREM AnswersAfterRequest == Spec => []NoAnswerToUnfinished
<1>1. IInv => NoAnswerToUnfinished
    BY DEF IInv
<1> QED
    BY <1>1, Invariant, PTL
=============================================================================
