------------------------------ MODULE SendFile ------------------------------
(***************************************************************************)
(* Sending a file's data to the server: BackendImpl::SendFile() cuts the    *)
(* data into requests no larger than the server allows, and HTTPRunner      *)
(* repeats a request that gets no response, or a 500 or 503, streaming its  *)
(* data again from the start.                                               *)
(*                                                                          *)
(* One call is modelled, from any state that earlier calls can leave the    *)
(* shared upload limit and the runner's failure state in.  Data is named by *)
(* its offset in the source: a request's body is always a range of it.      *)
(***************************************************************************)
EXTENDS Naturals

CONSTANTS
    Sizes,      \* how much data there is to send
    Limits,     \* the largest body the server accepts
    BufSize,    \* httplib asks for this much at a time
    MinSize,    \* UPLOAD_MINSIZE
    MaxRetries, \* RunnerOptions::maxRetries
    MaxLost     \* bound: requests that fail on the way, in all

ASSUME SizesAssumption == Sizes \subseteq Nat \ {0} /\ Limits \subseteq Nat
ASSUME BoundsAssumption ==
    /\ BufSize \in Nat \ {0} /\ MinSize \in Nat \ {0}
    /\ MaxRetries \in Nat /\ MaxLost \in Nat

Uploads == BOOLEAN   \* whether the file is made by the first request

VARIABLES
    args,           \* what is sent and to whom: fixed while the call runs
    mUploadMaxBytes,\* Config: the limit as far as it is known, 0 for none
    mFailureState,  \* HTTPRunner: the last request failed for good
    pc, result,
    byte,           \* data sent by the requests so far
    streamSize,     \* data read by writeFunc for this request
    streamCont,     \* userFunc has more
    maxSize,        \* the limit when the request was made
    soffset,        \* data in the body of this attempt
    attempt,        \* attempts of this request that have failed
    exists, stored, \* at the server: the file is there, and the data it has
    lost, requests  \* attempts lost and requests answered: counted for the properties

vars == <<args, mUploadMaxBytes, mFailureState, pc, result, byte, streamSize, streamCont,
          maxSize, soffset, attempt, exists, stored, lost, requests>>
serverVars == <<exists, stored, requests>>

Smaller(a, b) == IF a < b THEN a ELSE b

Return(r) == pc' = "done" /\ result' = r
Go(step) == pc' = step /\ UNCHANGED result

-----------------------------------------------------------------------------
(* the head of SendFile()'s loop *)
NextRequest ==
    /\ pc = "loop" /\ streamCont
    /\ maxSize' = mUploadMaxBytes
    /\ streamSize' = 0
    /\ attempt' = 0
    /\ Go("attempt")
    /\ UNCHANGED <<args, mUploadMaxBytes, mFailureState, byte, streamCont, soffset,
                   serverVars, lost>>

AllSent ==
    /\ pc = "loop" /\ ~streamCont
    /\ Return("sent")
    /\ UNCHANGED <<args, mUploadMaxBytes, mFailureState, byte, streamSize, streamCont,
                   maxSize, soffset, attempt, serverVars, lost>>

(* an attempt of DoRequestsAuto() *)
Attempt ==
    /\ pc = "attempt"
    /\ mFailureState' = (mFailureState \/ attempt = MaxRetries)
    /\ soffset' = 0
    /\ Go("stream")
    /\ UNCHANGED <<args, mUploadMaxBytes, byte, streamSize, streamCont, maxSize, attempt,
                   serverVars, lost>>

(* userFunc: from a string it has more until it is asked for data past the end,
   from a stream until it falls short of what is asked for. *)
More(offset, length) ==
    IF args.stream THEN offset + length <= args.size ELSE offset < args.size

(* writeFunc, called by httplib for the next piece of the body *)
Stream ==
    LET strSize == IF maxSize # 0 THEN Smaller(BufSize, maxSize) ELSE BufSize
        offset == byte + soffset
        left == IF offset < args.size THEN args.size - offset ELSE 0
        sread == Smaller(left, strSize)
    IN  /\ pc = "stream"
        /\ ~(maxSize # 0 /\ soffset >= maxSize)
        /\ streamCont' = More(offset, strSize)
        /\ streamSize' = streamSize + sread
        /\ soffset' = soffset + sread
        /\ Go(IF streamCont' THEN "stream" ELSE "reply")
        /\ UNCHANGED <<args, mUploadMaxBytes, mFailureState, byte, maxSize, attempt,
                       serverVars, lost>>

(* mutant of EndOfChunk: the end of a request is taken for the end of the data *)
EndOfChunkFinal ==
    /\ pc = "stream"
    /\ maxSize # 0 /\ soffset >= maxSize
    /\ Go("reply") /\ streamCont' = FALSE
    /\ UNCHANGED <<args, mUploadMaxBytes, mFailureState, byte, streamSize, maxSize,
                   soffset, attempt, serverVars, lost>>

(* writeFunc when the request has reached the limit *)
EndOfChunk ==
    /\ pc = "stream"
    /\ maxSize # 0 /\ soffset >= maxSize
    /\ IF args.oneshot THEN Return("WriteSize") ELSE Go("reply")
    /\ UNCHANGED <<args, mUploadMaxBytes, mFailureState, byte, streamSize, streamCont,
                   maxSize, soffset, attempt, serverVars, lost>>

(* the server's handling of a whole request: an upload makes the file, which must
   not be there yet, and a write fills in its range of an existing one *)
Accepted == soffset <= args.limit
IsUpload == byte = 0 /\ args.upload
Store ==
    /\ exists' = TRUE
    /\ stored' = stored \cup {i \in 0 .. args.size - 1 : byte <= i /\ i < byte + soffset}

(* No response, or a 500 or 503: HandleNonResponse() repeats the request, unless
   that is off or used up.  It may be lost before the server has handled it or after. *)
Lose ==
    /\ pc \in {"stream", "reply"} /\ lost < MaxLost
    /\ lost' = lost + 1
    /\ \/ UNCHANGED <<exists, stored>>
       \/ pc = "reply" /\ Accepted /\ ~(IsUpload /\ exists) /\ Store
    /\ IF args.canRetry /\ ~mFailureState
       THEN Go("attempt") /\ attempt' = attempt + 1
       ELSE Return("Endpoint") /\ UNCHANGED attempt
    /\ UNCHANGED <<args, mUploadMaxBytes, mFailureState, byte, streamSize, streamCont,
                   maxSize, soffset, requests>>

(* mutant of Served: an answer does not bring repeats back *)
ServedStillFailing ==
    /\ pc = "reply" /\ Accepted
    /\ IF IsUpload /\ exists
       THEN Return("Refused") /\ UNCHANGED <<serverVars, byte>>
       ELSE /\ Store
            /\ requests' = requests + 1
            /\ byte' = byte + streamSize
            /\ Go("loop")
    /\ UNCHANGED <<args, mUploadMaxBytes, mFailureState, streamSize, streamCont, maxSize,
                   soffset, attempt, lost>>

Served ==
    /\ pc = "reply" /\ Accepted
    /\ mFailureState' = FALSE
    /\ IF IsUpload /\ exists
       THEN Return("Refused") /\ UNCHANGED <<serverVars, byte>>
       ELSE /\ Store
            /\ requests' = requests + 1
            /\ byte' = byte + streamSize
            /\ Go("loop")
    /\ UNCHANGED <<args, mUploadMaxBytes, streamSize, streamCont, maxSize, soffset,
                   attempt, lost>>

(* a 413, or what PHP makes of it *)
TooLarge ==
    /\ pc = "reply" /\ ~Accepted
    /\ mFailureState' = FALSE
    /\ Go("tooLarge")
    /\ UNCHANGED <<args, mUploadMaxBytes, byte, streamSize, streamCont, maxSize, soffset,
                   attempt, serverVars, lost>>

(* mutant of CatchInputSize: the limit is lowered to what was sent, not half of it *)
CatchInputSizeUnhalved ==
    /\ pc = "tooLarge"
    /\ IF maxSize # 0 /\ maxSize < MinSize
       THEN Return("InputSize") /\ UNCHANGED <<mUploadMaxBytes, streamCont>>
       ELSE mUploadMaxBytes' = streamSize /\ Go("loop") /\ streamCont' = TRUE
    /\ UNCHANGED <<args, mFailureState, byte, streamSize, maxSize, soffset, attempt,
                   serverVars, lost>>

(* SendFile()'s handler: the limit is lowered, and the request made smaller *)
CatchInputSize ==
    /\ pc = "tooLarge"
    /\ IF maxSize # 0 /\ maxSize < MinSize
       THEN Return("InputSize") /\ UNCHANGED <<mUploadMaxBytes, streamCont>>
       ELSE /\ mUploadMaxBytes' = streamSize \div 2
            /\ IF args.oneshot
               THEN Return("WriteSize") /\ UNCHANGED streamCont
               ELSE Go("loop") /\ streamCont' = TRUE
    /\ UNCHANGED <<args, mFailureState, byte, streamSize, maxSize, soffset, attempt,
                   serverVars, lost>>
-----------------------------------------------------------------------------
Init ==
    /\ args \in [size : Sizes, limit : Limits, upload : Uploads, oneshot : BOOLEAN,
                 canRetry : BOOLEAN, stream : BOOLEAN]
    /\ mUploadMaxBytes \in {0} \cup Sizes
    /\ mFailureState \in BOOLEAN
    /\ pc = "loop" /\ result = "none"
    /\ byte = 0 /\ streamSize = 0 /\ streamCont = TRUE
    /\ maxSize = 0 /\ soffset = 0 /\ attempt = 0
    /\ exists = ~args.upload /\ stored = {}
    /\ lost = 0 /\ requests = 0

Finished == pc = "done" /\ UNCHANGED vars

Step == NextRequest \/ AllSent \/ Attempt \/ Stream \/ EndOfChunk \/ Lose \/ Served
        \/ TooLarge \/ CatchInputSize
Next == Step \/ Finished

Spec == Init /\ [][Next]_vars

(* The thread runs on, and httplib's timeouts make a request end one way or the other. *)
FairSpec == Spec /\ WF_vars(Step)
-----------------------------------------------------------------------------
(* A call that returns has sent everything, if no request had to be repeated or
   one was enough for the whole file (BackendImpl.cpp:740-788). *)
SentWhole == result = "sent" /\ (lost = 0 \/ requests = 1) => stored = 0 .. args.size - 1

(* A call that returns has sent everything (RunnerInput.hpp:59: the offset of the
   data "may reset", as it does when a request is repeated). *)
SentAlways == result = "sent" => stored = 0 .. args.size - 1

(* A request for which repeating is off, or that follows one which failed for good, is
   attempted once, any other at most 1 + MaxRetries times; and an answer ends what a failure
   began: a call that was answered gives up only after all the repeats of its last request,
   if it may repeat at all (HTTPRunner.cpp:144, 228). *)
GivesUp ==
    [][/\ attempt' > attempt => args.canRetry /\ ~mFailureState /\ attempt < MaxRetries
       /\ result' = "Endpoint" /\ result # "Endpoint" =>
            ~args.canRetry \/ attempt = MaxRetries \/ requests = 0]_vars

(* Without repeats, every 413 lowers the limit, and never to 0, which would lift it.
   A piece of a request may overshoot the limit, yet half of it is always less. *)
AdjustShrinks == [][lost = 0 /\ args.size > 1 /\ mUploadMaxBytes' # mUploadMaxBytes =>
    /\ mUploadMaxBytes' > 0
    /\ mUploadMaxBytes = 0 \/ mUploadMaxBytes' < mUploadMaxBytes]_vars

(* The call ends, with the data sent or an exception, however small the limit of
   the server, for more than a byte of data. *)
Ends == args.size > 1 ~> pc = "done"
=============================================================================
