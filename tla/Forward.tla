------------------------------- MODULE Forward -------------------------------
(***************************************************************************)
(* One call of Plugin.Forward (internal/monitor/forward.go): the host      *)
(* streams an HTTP request in frames, a goroutine carries it out with      *)
(* client.Do while the handler feeds the body through an io.Pipe, and the  *)
(* answer of the upstream is streamed back in frames.                      *)
(*                                                                         *)
(* Chunks are counted, not named: the frames of a stream, the pipe and an  *)
(* HTTP body keep their order.  The host's end of the stream, the pipe's   *)
(* reader, net/http and the upstream are external and modelled from how    *)
(* forward.go uses them.                                                   *)
(***************************************************************************)
EXTENDS Naturals, Sequences

CONSTANTS
    MaxChunks,   \* bound: body chunks of the request
    MaxAnswer    \* bound: body chunks of the answer

ASSUME ForwardAssumption == MaxChunks \in Nat /\ MaxAnswer \in Nat

VARIABLES
    start,    \* the request metadata the host has for this call
    host,     \* how far the host has got: "new", "body", "ended", "closed"
    sentBody, \* body chunks the host has sent
    inbox,    \* frames sent and not received yet
    ctxDone,  \* stream.Context() is done
    pc,       \* where the handler is
    code,     \* the error it is about to send
    pipeW,    \* writing end of the pipe: "open", "eof" or "error" once closed
    pipeR,    \* reading end: "open" or "closed"
    offer,    \* chunks in a Write that has not returned
    doPc,     \* the goroutine: "none", "connect", "exchange", "sendResp",
              \* "sendErr", "ended"
    ch,       \* responseCh: "empty", "resp" or "err"
    conn,     \* connection to the upstream: "none", "open", "closed"
    upGot,    \* body chunks the upstream has received
    upEnd,    \* the upstream has seen the body end as it should
    answered, \* chunks of the answer's body read so far
    answer,   \* the answer's body: "open", "eof" or "broken"
    out       \* frames sent to the host

vars == <<start, host, sentBody, inbox, ctxDone, pc, code, pipeW, pipeR, offer,
          doPc, ch, conn, upGot, upEnd, answered, answer, out>>

hostVars == <<start, host, sentBody>>
pipeVars == <<pipeW, pipeR, offer>>
doVars == <<doPc, ch, conn>>
upVars == <<upGot, upEnd>>
answerVars == <<answered, answer>>

\* declared is Content-Length in chunks; 0 with a body means unknown.
Starts == [check : {"ok", "badRequest", "badProxy"}, hasBody : BOOLEAN, declared : 0 .. MaxChunks]

Codes == {"INVALID_REQUEST", "INVALID_PROXY", "REQUEST_BODY_ERROR",
          "UPSTREAM_ERROR", "UPSTREAM_BODY_ERROR"}

\* ForwardResponseError.RequestSent of each error.
RequestSentOnAnswer(c) == c \in {"REQUEST_BODY_ERROR", "UPSTREAM_BODY_ERROR"} \* mutant: not if Do failed
RequestSent(c) == c \notin {"INVALID_REQUEST", "INVALID_PROXY"}

Init ==
    /\ start \in Starts
    /\ host = "new" /\ sentBody = 0 /\ inbox = <<>> /\ ctxDone = FALSE
    /\ pc = "first" /\ code = "none"
    /\ pipeW = "open" /\ pipeR = "open" /\ offer = 0
    /\ doPc = "none" /\ ch = "empty" /\ conn = "none"
    /\ upGot = 0 /\ upEnd = FALSE
    /\ answered = 0 /\ answer = "open"
    /\ out = <<>>

(***************************************************************************)
(* The host.                                                               *)
(***************************************************************************)
HostSends(frame) ==
    /\ inbox' = Append(inbox, frame)
    /\ UNCHANGED <<start, ctxDone, pc, code, out, pipeVars, doVars, upVars, answerVars>>

\* The first frame: metadata, or something else.
HostStart ==
    /\ host = "new"
    /\ host' = "body"
    /\ \E frame \in {"start", "odd"} : HostSends(frame)
    /\ UNCHANGED sentBody

\* A chunk of the body, within the length declared.
HostChunk ==
    /\ host = "body" /\ start.hasBody
    /\ sentBody < IF start.declared > 0 THEN start.declared ELSE MaxChunks
    /\ sentBody' = sentBody + 1
    /\ HostSends("chunk")
    /\ UNCHANGED host

\* body_end, when all has been sent.
HostEnd ==
    /\ host = "body"
    /\ start.hasBody /\ start.declared > 0 => sentBody = start.declared
    /\ host' = "ended"
    /\ HostSends("end")
    /\ UNCHANGED sentBody

\* A frame that is none of these (an empty chunk, a second start), or the end
\* of the stream without body_end: the host has no more of the body.
HostBreaksOff ==
    /\ host = "body"
    /\ host' = "closed"
    /\ \/ HostSends("odd")
       \/ UNCHANGED <<start, inbox, ctxDone, pc, code, out, pipeVars, doVars, upVars, answerVars>>
    /\ UNCHANGED sentBody

\* The host cancels the call, or is gone.
HostCancels ==
    /\ ~ctxDone
    /\ ctxDone' = TRUE
    /\ UNCHANGED <<hostVars, inbox, pc, code, out, pipeVars, doVars, upVars, answerVars>>

(***************************************************************************)
(* The handler.                                                            *)
(***************************************************************************)
\* What stream.Recv may return: the next frame, io.EOF after the last one, or
\* the error of a cancelled context.
Received ==
    (IF inbox # <<>> THEN {Head(inbox)} ELSE IF host = "closed" THEN {"EOF"} ELSE {})
        \cup (IF ctxDone THEN {"cancelled"} ELSE {})

Recv(result) ==
    /\ result \in Received
    /\ inbox' = IF result \in {"EOF", "cancelled"} THEN inbox ELSE Tail(inbox)

\* The handler returns; grpc then cancels the context of the stream.
Return == pc' = "done" /\ ctxDone' = TRUE

FailUncoded(c) == pc' = "reply" /\ UNCHANGED <<ctxDone, code>> \* mutant: the code is not set

\* The handler will send an error and return.
Fail(c) == pc' = "reply" /\ code' = c /\ UNCHANGED ctxDone

\* The first frame.  Metadata that builds a request and a client start the
\* goroutine; without a body there is no pipe.
ReceiveStart ==
    /\ pc = "first"
    /\ \E result \in Received :
          /\ Recv(result)
          /\ \/ /\ result \in {"EOF", "cancelled"}
                /\ Return
                /\ UNCHANGED <<code, pipeVars, doVars>>
             \/ /\ result # "start" /\ result \notin {"EOF", "cancelled"}
                /\ Fail("INVALID_REQUEST")
                /\ UNCHANGED <<pipeVars, doVars>>
             \/ /\ result = "start" /\ start.check = "badRequest"
                /\ Fail("INVALID_REQUEST")
                /\ UNCHANGED <<pipeVars, doVars>>
             \/ /\ result = "start" /\ start.check = "badProxy"
                /\ Fail("INVALID_PROXY")
                /\ pipeW' = IF start.hasBody THEN "error" ELSE pipeW
                /\ UNCHANGED <<pipeR, offer, doVars>>
             \/ /\ result = "start" /\ start.check = "ok"
                /\ pc' = IF start.hasBody THEN "recv" ELSE "consume"
                /\ doPc' = "connect"
                /\ IF start.hasBody THEN UNCHANGED <<pipeW, pipeR>>
                                    ELSE pipeW' = "eof" /\ pipeR' = "closed"
                /\ UNCHANGED <<ctxDone, code, offer, ch, conn>>
    /\ UNCHANGED <<hostVars, upVars, answerVars, out>>

EndsBodyUnlessChunk(frame) == frame \notin {"chunk", "cancelled", "EOF"} \* mutant: any other frame ends the body
EndsBody(frame) == frame = "end"

LeftOpen == "open" \* mutant: no deferred writer.Close
Closed == "eof"

\* receiveRequestBody: a chunk goes into the pipe; body_end closes it; so does
\* an unexpected frame, by the deferred Close; an error of Recv is handed to
\* the reader, who takes io.EOF for the end.
ReceiveBody ==
    /\ pc = "recv"
    /\ \E result \in Received :
          /\ Recv(result)
          /\ \/ /\ result = "chunk"
                /\ offer' = offer + 1
                /\ pc' = "write"
                /\ UNCHANGED <<ctxDone, code, pipeW>>
             \/ /\ EndsBody(result)
                /\ pipeW' = Closed
                /\ pc' = "await"
                /\ UNCHANGED <<ctxDone, code, offer>>
             \/ /\ result # "chunk" /\ ~EndsBody(result)
                /\ pipeW' = IF result = "cancelled" THEN "error" ELSE "eof"
                /\ Fail("REQUEST_BODY_ERROR")
                /\ UNCHANGED offer
    /\ UNCHANGED <<hostVars, pipeR, doVars, upVars, answerVars, out>>

\* writer.Write returns: the reader has taken the chunk, or has closed its end.
WriteReturns ==
    /\ pc = "write"
    /\ \/ /\ offer = 0
          /\ pc' = "recv"
          /\ UNCHANGED <<ctxDone, code, pipeW, offer>>
       \/ /\ offer # 0
          /\ pipeR = "closed"
          /\ offer' = 0
          /\ pipeW' = "eof"
          /\ Fail("REQUEST_BODY_ERROR")
    /\ UNCHANGED <<hostVars, inbox, pipeR, doVars, upVars, answerVars, out>>

\* consumeBodyEnd: without a body the next frame must be body_end.
ConsumeBodyEnd ==
    /\ pc = "consume"
    /\ \E result \in Received :
          /\ Recv(result)
          /\ \/ EndsBody(result) /\ pc' = "await" /\ UNCHANGED <<ctxDone, code>>
             \/ ~EndsBody(result) /\ Fail("REQUEST_BODY_ERROR")
    /\ UNCHANGED <<hostVars, pipeVars, doVars, upVars, answerVars, out>>

\* <-responseCh
ReceiveResult ==
    /\ pc = "await"
    /\ ch # "empty"
    /\ ch' = "empty"
    /\ \/ ch = "resp" /\ pc' = "head" /\ UNCHANGED <<ctxDone, code>>
       \/ ch = "err" /\ Fail("UPSTREAM_ERROR")
    /\ UNCHANGED <<hostVars, inbox, pipeVars, doPc, conn, upVars, answerVars, out>>

\* Where the handler goes after its error frame.
AfterReplyMissing == IF code = "REQUEST_BODY_ERROR" THEN "await" ELSE "done" \* mutant: a return is missing
AfterReply == "done"

\* sendForwardError, and return.
Reply ==
    /\ pc = "reply"
    /\ out' = IF ctxDone THEN out ELSE Append(out, code)
    /\ pc' = AfterReply
    /\ ctxDone' = (ctxDone \/ AfterReply = "done")
    /\ conn' = IF code = "UPSTREAM_BODY_ERROR" THEN "closed" ELSE conn \* defer Body.Close
    /\ UNCHANGED <<hostVars, inbox, code, pipeVars, doPc, ch, upVars, answerVars>>

\* sendHTTPResponse: status and headers; a Send that fails ends the call.
SendHead ==
    /\ pc = "head"
    /\ IF ctxDone
       THEN Return /\ conn' = "closed" /\ UNCHANGED out
       ELSE pc' = "read" /\ out' = Append(out, "start") /\ UNCHANGED <<ctxDone, conn>>
    /\ UNCHANGED <<hostVars, inbox, code, pipeVars, doPc, ch, upVars, answerVars>>

\* Body.Read returns n chunks (0 or 1) with err: data may come with io.EOF.
RelayedUnlessEOF(n, err) == IF err = "eof" THEN 0 ELSE n \* mutant: err is looked at first
Relayed(n, err) == n

RelayChunk(n, err) ==
    /\ pc = "read"
    /\ n > 0 \/ err # "open"
    /\ answered + n <= MaxAnswer
    /\ answered' = answered + n
    /\ answer' = err
    /\ IF ctxDone /\ n > 0
       THEN Return /\ conn' = "closed" /\ UNCHANGED <<out, code>>
       ELSE /\ out' = IF Relayed(n, err) > 0 THEN Append(out, "chunk") ELSE out
            /\ CASE err = "open"   -> UNCHANGED <<pc, code, ctxDone>>
                 [] err = "eof"    -> pc' = "finish" /\ UNCHANGED <<code, ctxDone>>
                 [] err = "broken" -> Fail("UPSTREAM_BODY_ERROR")
            /\ UNCHANGED conn
    /\ UNCHANGED <<hostVars, inbox, pipeVars, doPc, ch, upVars>>

\* The last frame, and return.
SendEnd ==
    /\ pc = "finish"
    /\ out' = IF ctxDone THEN out ELSE Append(out, "end")
    /\ Return
    /\ conn' = "closed"
    /\ UNCHANGED <<hostVars, inbox, code, pipeVars, doPc, ch, upVars, answerVars>>

(***************************************************************************)
(* The goroutine: client.Do, and the upstream.                             *)
(***************************************************************************)
\* The connection is made and the header sent.
Connect ==
    /\ doPc = "connect"
    /\ doPc' = "exchange"
    /\ conn' = "open"
    /\ upEnd' = ~start.hasBody
    /\ UNCHANGED <<hostVars, inbox, ctxDone, pc, code, out, pipeVars, ch, upGot, answerVars>>

\* net/http reads the pipe and sends what it finds.
TakeChunk ==
    /\ conn = "open" /\ pipeR = "open" /\ offer > 0
    /\ start.declared > 0 => upGot < start.declared
    /\ offer' = offer - 1
    /\ upGot' = upGot + 1
    /\ UNCHANGED <<hostVars, inbox, ctxDone, pc, code, out, pipeW, pipeR, doVars, upEnd, answerVars>>

\* It finds the end, in agreement with the length declared if there is one.
TakeEnd ==
    /\ conn = "open" /\ pipeR = "open" /\ offer = 0 /\ pipeW = "eof"
    /\ start.declared > 0 => upGot = start.declared
    /\ upEnd' = TRUE
    /\ pipeR' = "closed"
    /\ UNCHANGED <<hostVars, inbox, ctxDone, pc, code, out, pipeW, offer, doVars, upGot, answerVars>>

\* The upstream answers, be it before the end of the body: Do returns.
Answer ==
    /\ doPc = "exchange" /\ conn = "open"
    /\ doPc' = "sendResp"
    /\ UNCHANGED <<hostVars, inbox, ctxDone, pc, code, out, pipeVars, ch, conn, upVars, answerVars>>

\* No connection, or the connection ends: the upstream resets it, the body is
\* in error or too short, the context is done.  net/http closes the body, and
\* Do returns an error unless it has returned.
Breaks ==
    /\ doPc = "connect" \/ conn = "open"
    /\ conn' = "closed"
    /\ pipeR' = "closed"
    /\ doPc' = IF doPc \in {"connect", "exchange"} THEN "sendErr" ELSE doPc
    /\ UNCHANGED <<hostVars, inbox, ctxDone, pc, code, out, pipeW, offer, ch, upVars, answerVars>>

ChanReadyUnbuffered == ch = "empty" /\ pc = "await" \* mutant: no buffer in responseCh
ChanReady == ch = "empty"

\* responseCh <- ...: the goroutine ends.
SendResult ==
    /\ doPc \in {"sendResp", "sendErr"}
    /\ ChanReady
    /\ ch' = IF doPc = "sendResp" THEN "resp" ELSE "err"
    /\ doPc' = "ended"
    /\ UNCHANGED <<hostVars, inbox, ctxDone, pc, code, out, pipeVars, conn, upVars, answerVars>>

HostStep == HostStart \/ HostChunk \/ HostEnd \/ HostBreaksOff

HandlerStep ==
    \/ ReceiveStart
    \/ ReceiveBody
    \/ WriteReturns
    \/ ConsumeBodyEnd
    \/ ReceiveResult
    \/ Reply
    \/ SendHead
    \/ \E n \in 0 .. 1, err \in {"open", "eof", "broken"} : RelayChunk(n, err)
    \/ SendEnd

DoStep == Connect \/ TakeChunk \/ TakeEnd \/ Answer \/ Breaks \/ SendResult

Next == HostStep \/ HostCancels \/ HandlerStep \/ DoStep

Spec == Init /\ [][Next]_vars

(***************************************************************************)
(* Fairness.  The handler and the goroutine's send run when they can, and  *)
(* net/http notices a cancelled context; nothing more is assumed of host   *)
(* and upstream when the host cancels.  To let a call end by itself the    *)
(* host must finish its request and the upstream read it and answer:       *)
(* Forward has no timeout of its own.                                      *)
(***************************************************************************)
Fairness ==
    /\ WF_vars(HandlerStep)
    /\ WF_vars(SendResult)
    /\ WF_vars(ctxDone /\ Breaks)

FairSpec == Spec /\ Fairness

(***************************************************************************)
(* Properties.                                                             *)
(***************************************************************************)
Told(frame) == \E i \in 1 .. Len(out) : out[i] = frame

\* Every variable has the shape its declaration gives it: at most one Write
\* is under way, and the channel holds at most one result.
TypeOK ==
    /\ start \in Starts
    /\ host \in {"new", "body", "ended", "closed"}
    /\ sentBody \in 0 .. MaxChunks
    /\ inbox \in Seq({"start", "chunk", "end", "odd"})
    /\ ctxDone \in BOOLEAN
    /\ pc \in {"first", "recv", "write", "consume", "await", "head", "read", "finish",
              "reply", "done"}
    /\ code \in Codes \cup {"none"}
    /\ pipeW \in {"open", "eof", "error"}
    /\ pipeR \in {"open", "closed"}
    /\ offer \in 0 .. 1
    /\ doPc \in {"none", "connect", "exchange", "sendResp", "sendErr", "ended"}
    /\ ch \in {"empty", "resp", "err"}
    /\ conn \in {"none", "open", "closed"}
    /\ upGot \in 0 .. MaxChunks
    /\ upEnd \in BOOLEAN
    /\ answered \in 0 .. MaxAnswer
    /\ answer \in {"open", "eof", "broken"}
    /\ out \in Seq({"start", "chunk", "end"} \cup Codes)

\* The host can tell the outcome from the frames: either one error frame, or
\* a start, chunks, and at the very last one End or one error; nothing follows
\* an End or an error, whatever fails when.
FrameOrder ==
    \A i \in 1 .. Len(out) :
        /\ out[i] = "start" => i = 1
        /\ out[i] \in {"chunk", "end"} => i > 1 /\ out[1] = "start"
        /\ out[i] = "end" => i = Len(out)
        /\ out[i] \in Codes => i = Len(out) /\ (i > 1 <=> out[i] = "UPSTREAM_BODY_ERROR")

\* End tells the host that it has the whole answer: every chunk read from the
\* upstream, up to a clean end of its body (a start, the chunks, the end).
EndMeansWhole ==
    Told("end") => answer = "eof" /\ Len(out) = 1 + answered + 1

\* request_sent = false lets the host try again: then nothing was started that
\* could have reached the upstream.
NotSentMeansUntouched ==
    \A i \in 1 .. Len(out) : out[i] \in Codes /\ ~RequestSent(out[i]) => doPc = "none"

\* The host never gets an answer to a request it has not finished: whatever
\* the upstream made of a body that was cut short, its answer is not relayed.
NoAnswerToUnfinished == Told("start") => host = "ended"

\* When the host cancels, or the handler has returned, the handler, the
\* goroutine and the connection all come to an end, whatever they waited for
\* (a frame, the reader of the pipe, the upstream).
CancelEnds ==
    ctxDone ~> pc = "done" /\ doPc \in {"none", "ended"} /\ conn # "open"

\* Host and upstream do their part: the one sends its request to the end, the
\* other lets itself be reached, reads, and then answers.
PeersDoTheirPart ==
    /\ WF_vars(HostStep)
    /\ WF_vars(Connect)
    /\ WF_vars(TakeChunk)
    /\ WF_vars(TakeEnd)
    /\ WF_vars(upEnd /\ Answer)

\* A call whose peers do their part returns: handler, pipe and goroutine never
\* all wait for one another.
ForwardReturns == PeersDoTheirPart => <>(pc = "done")

(***************************************************************************)
(* A claim the code does not keep.                                         *)
(***************************************************************************)
\* README.md:38 calls the forwarding transparent.  So an upstream that sees the
\* end of the body has the body the host sent and declared finished.
EndOfBodyIsTrue == upEnd /\ start.hasBody => host = "ended" /\ upGot = sentBody
=============================================================================
