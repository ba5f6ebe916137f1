---------------------------- MODULE SendFileProofs ----------------------------
(* What SendFile() sends and when it gives up, for every size of the data, limit of the
   server, size of httplib's buffer and number of repeats. *)
EXTENDS SendFile, TLAPS

Labels == {"loop", "attempt", "stream", "reply", "tooLarge", "done"}

TypeOK ==
    /\ args \in [size : Sizes, limit : Limits, upload : Uploads, oneshot : BOOLEAN,
                 canRetry : BOOLEAN, stream : BOOLEAN]
    /\ mUploadMaxBytes \in Nat /\ maxSize \in Nat
    /\ mFailureState \in BOOLEAN /\ streamCont \in BOOLEAN
    /\ pc \in Labels
    /\ byte \in Nat /\ streamSize \in Nat /\ soffset \in Nat /\ attempt \in Nat
    /\ stored \subseteq 0 .. args.size - 1
    /\ lost \in Nat /\ requests \in Nat

Whole == stored = 0 .. args.size - 1

(* streamCont, which is left from the attempt before until writeFunc is called again *)
ContIsTrue ==
    /\ pc = "stream" /\ ~streamCont => soffset = 0
    /\ pc = "reply" /\ ~streamCont => byte + soffset >= args.size

(* as long as nothing is lost, the data that was counted is the data that was sent *)
CountIsTrue ==
    lost = 0 =>
        /\ stored = {i \in 0 .. args.size - 1 : i < byte}
        /\ pc = "attempt" => streamSize = 0
        /\ pc \in {"stream", "reply", "tooLarge"} => streamSize = soffset

EndIsTrue ==
    /\ requests = 0 => byte = 0
    /\ pc = "loop" /\ ~streamCont /\ (lost = 0 \/ requests = 1) => Whole
    /\ result = "sent" => pc = "done"

(* what a request that is too large has read: more than the server takes, at least two
   bytes, and less than twice the limit it was made for *)
Overshoot ==
    /\ maxSize # 0 /\ pc \in {"stream", "reply", "tooLarge"} => soffset < 2 * maxSize
    /\ pc \in {"attempt", "stream", "reply", "tooLarge"} => maxSize = mUploadMaxBytes
    /\ pc = "stream" /\ soffset > 0 => streamCont
    /\ pc = "reply" => (maxSize # 0 /\ soffset >= maxSize) \/ byte + soffset >= args.size
    /\ pc = "tooLarge" => /\ soffset > args.limit
                          /\ \/ maxSize # 0 /\ soffset >= maxSize
                             \/ byte + soffset >= args.size
    /\ lost = 0 /\ byte > 0 => args.limit > 0

(* the attempts of a request that are left *)
AttemptsLeft ==
    /\ pc = "attempt" => attempt <= MaxRetries
    /\ pc \in {"stream", "reply"} =>
         attempt <= MaxRetries /\ (mFailureState \/ attempt < MaxRetries)

SendInv == TypeOK /\ ContIsTrue /\ CountIsTrue /\ EndIsTrue /\ SentWhole /\ AttemptsLeft
LimitInv == SendInv /\ Overshoot

-----------------------------------------------------------------------------
(* the assumption on the constants, for this call *)
LEMMA SizesAreNat == ASSUME TypeOK PROVE args.size \in Nat \ {0} /\ args.limit \in Nat
BY SizesAssumption DEF TypeOK

(* what a call of writeFunc leaves: as much as was asked for, or all there is *)
LEMMA StreamReads ==
    ASSUME SendInv, Stream
    PROVE  \E sread \in Nat :
             /\ soffset' = soffset + sread /\ streamSize' = streamSize + sread
             /\ streamCont' \in BOOLEAN
             /\ ~streamCont' => byte + soffset + sread >= args.size
             /\ streamCont' => sread > 0
             /\ sread <= BufSize /\ (maxSize # 0 => sread <= maxSize)
<1> DEFINE strSize == IF maxSize # 0 THEN Smaller(BufSize, maxSize) ELSE BufSize
           left == IF byte + soffset < args.size THEN args.size - (byte + soffset) ELSE 0
           sread == Smaller(left, strSize)
<1>1. /\ strSize \in Nat \ {0} /\ strSize <= BufSize /\ (maxSize # 0 => strSize <= maxSize)
      /\ left \in Nat
  BY SizesAreNat, BoundsAssumption DEF SendInv, TypeOK, Smaller
<1>2. sread \in Nat /\ sread <= strSize /\ sread <= left /\ (sread = left \/ sread = strSize)
  BY <1>1 DEF Smaller
<1>3. soffset' = soffset + sread /\ streamSize' = streamSize + sread
      /\ streamCont' = More(byte + soffset, strSize)
  BY DEF Stream
<1>4. byte \in Nat /\ soffset \in Nat /\ args.size \in Nat /\ args.stream \in BOOLEAN
  BY SizesAreNat DEF SendInv, TypeOK
<1>5. left = IF byte + soffset < args.size THEN args.size - (byte + soffset) ELSE 0
  OBVIOUS
<1>6. sread \in Nat /\ sread <= BufSize /\ (maxSize # 0 => sread <= maxSize)
  BY <1>1, <1>2, BoundsAssumption DEF SendInv, TypeOK
<1> HIDE DEF strSize, left, sread
<1>7. CASE args.stream
  <2>1. streamCont' = (byte + soffset + strSize <= args.size)
    BY <1>3, <1>7 DEF More
  <2>2. streamCont' \in BOOLEAN
    BY <2>1
  <2>3. /\ streamCont' => byte + soffset + strSize <= args.size
        /\ ~streamCont' => ~(byte + soffset + strSize <= args.size)
    BY <2>1, Zenon
  <2>4. byte + soffset + strSize <= args.size => sread > 0
    BY <1>1, <1>2, <1>4, <1>5
  <2>5. ~(byte + soffset + strSize <= args.size) => byte + soffset + sread >= args.size
    BY <1>1, <1>2, <1>4, <1>5
  <2>6. (~streamCont' => byte + soffset + sread >= args.size) /\ (streamCont' => sread > 0)
    BY ONLY <2>3, <2>4, <2>5, Zenon
  <2> QED
    BY <1>3, <1>6, <2>2, <2>6, Zenon
<1>8. CASE ~args.stream
  <2>1. streamCont' = (byte + soffset < args.size)
    BY <1>3, <1>8 DEF More
  <2>2. streamCont' \in BOOLEAN
    BY <2>1
  <2>3. /\ streamCont' => byte + soffset < args.size
        /\ ~streamCont' => ~(byte + soffset < args.size)
    BY <2>1, Zenon
  <2>4. byte + soffset < args.size => sread > 0
    BY <1>1, <1>2, <1>4, <1>5
  <2>5. ~(byte + soffset < args.size) => byte + soffset + sread >= args.size
    BY <1>1, <1>2, <1>4, <1>5
  <2>6. (~streamCont' => byte + soffset + sread >= args.size) /\ (streamCont' => sread > 0)
    BY ONLY <2>3, <2>4, <2>5, Zenon
  <2> QED
    BY <1>3, <1>6, <2>2, <2>6, Zenon
<1> QED
  BY <1>4, <1>7, <1>8

(* a request from the beginning that has everything *)
LEMMA SetsOfData ==
    ASSUME NEW size \in Nat, NEW sent \in Nat, NEW S \in SUBSET (0 .. size - 1), sent >= size
    PROVE  S \cup {i \in 0 .. size - 1 : 0 <= i /\ i < 0 + sent} = 0 .. size - 1
<1>1. \A i \in 0 .. size - 1 : 0 <= i /\ i < 0 + sent
  OBVIOUS
<1> QED
  BY <1>1

(* A call begins with nothing sent, whatever limit and failure were left by others. *)
LEMMA SendInit == Init => SendInv
BY SizesAssumption, BoundsAssumption
   DEF Init, SendInv, TypeOK, ContIsTrue, CountIsTrue, EndIsTrue, SentWhole, AttemptsLeft,
       Labels, Whole

(* No step of the loop, of an attempt or of the server breaks the invariant. *)
LEMMA SendStep == SendInv /\ [Next]_vars => SendInv'
<1> SUFFICES ASSUME SendInv, [Next]_vars PROVE SendInv'
  OBVIOUS
<1> USE SizesAreNat, BoundsAssumption
<1>1. CASE NextRequest
  BY <1>1 DEF NextRequest, Go, serverVars, SendInv, TypeOK, ContIsTrue, CountIsTrue, EndIsTrue,
     SentWhole, AttemptsLeft, Labels, Whole
<1>2. CASE AllSent
  BY <1>2 DEF AllSent, Return, serverVars, SendInv, TypeOK, ContIsTrue, CountIsTrue, EndIsTrue,
     SentWhole, AttemptsLeft, Labels, Whole
<1>3. CASE Attempt
  <2>1. /\ pc = "attempt" /\ pc' = "stream" /\ soffset' = 0
        /\ mFailureState' = (mFailureState \/ attempt = MaxRetries)
        /\ UNCHANGED <<result, args, mUploadMaxBytes, byte, streamSize, streamCont, maxSize,
                       attempt, exists, stored, requests, lost>>
    BY <1>3 DEF Attempt, Go, serverVars
  <2>2. mFailureState' \in BOOLEAN
    BY <2>1
  <2>3. attempt <= MaxRetries /\ (mFailureState' \/ attempt < MaxRetries)
    <3>1. attempt <= MaxRetries /\ attempt \in Nat
      BY <2>1 DEF SendInv, TypeOK, AttemptsLeft
    <3>2. attempt = MaxRetries \/ attempt < MaxRetries
      BY <3>1
    <3>3. attempt = MaxRetries => mFailureState'
      BY <2>1, Zenon
    <3> QED
      BY <3>1, <3>2, <3>3
  <2> QED
    BY <2>1, <2>2, <2>3 DEF SendInv, TypeOK, ContIsTrue, CountIsTrue, EndIsTrue, SentWhole,
       AttemptsLeft, Labels, Whole
<1>4. CASE Stream
  <2>1. PICK sread \in Nat :
             /\ soffset' = soffset + sread /\ streamSize' = streamSize + sread
             /\ streamCont' \in BOOLEAN
             /\ ~streamCont' => byte + soffset + sread >= args.size
    BY <1>4, StreamReads
  <2>2. /\ pc = "stream" /\ pc' = (IF streamCont' THEN "stream" ELSE "reply")
        /\ UNCHANGED <<result, args, mUploadMaxBytes, mFailureState, byte, maxSize, attempt,
                       exists, stored, requests, lost>>
    BY <1>4 DEF Stream, Go, serverVars
  <2> QED
    BY <2>1, <2>2 DEF SendInv, TypeOK, ContIsTrue, CountIsTrue, EndIsTrue, SentWhole,
       AttemptsLeft, Labels, Whole
<1>5. CASE EndOfChunk
  <2>1. soffset > 0 /\ streamCont
    BY <1>5 DEF EndOfChunk, SendInv, TypeOK, ContIsTrue
  <2> QED
    BY <1>5, <2>1 DEF EndOfChunk, Go, Return, serverVars, SendInv, TypeOK, ContIsTrue,
       CountIsTrue, EndIsTrue, SentWhole, AttemptsLeft, Labels, Whole
<1>6. CASE Lose
  <2>1. /\ lost' = lost + 1 /\ stored' \subseteq 0 .. args.size - 1
        /\ UNCHANGED <<args, mUploadMaxBytes, mFailureState, byte, streamSize, streamCont,
                       maxSize, soffset, requests>>
        /\ pc \in {"stream", "reply"}
    BY <1>6 DEF Lose, Store, SendInv, TypeOK
  <2>2. CASE args.canRetry /\ ~mFailureState
    <3>1. pc' = "attempt" /\ UNCHANGED result /\ attempt' = attempt + 1
      BY <1>6, <2>2 DEF Lose, Go
    <3> QED
      BY <2>1, <2>2, <3>1 DEF SendInv, TypeOK, ContIsTrue, CountIsTrue, EndIsTrue, SentWhole,
         AttemptsLeft, Labels, Whole
  <2>3. CASE ~(args.canRetry /\ ~mFailureState)
    <3>1. pc' = "done" /\ result' = "Endpoint" /\ UNCHANGED attempt
      BY <1>6, <2>3 DEF Lose, Return
    <3> QED
      BY <2>1, <3>1 DEF SendInv, TypeOK, ContIsTrue, CountIsTrue, EndIsTrue, SentWhole,
         AttemptsLeft, Labels, Whole
  <2> QED
    BY <2>2, <2>3
<1>7. CASE Served
  <2>1. /\ pc = "reply" /\ mFailureState' = FALSE
        /\ UNCHANGED <<args, mUploadMaxBytes, streamSize, streamCont, maxSize, soffset,
                       attempt, lost>>
    BY <1>7 DEF Served
  <2>2. CASE IsUpload /\ exists
    BY <1>7, <2>1, <2>2 DEF Served, Return, serverVars, SendInv, TypeOK, ContIsTrue,
       CountIsTrue, EndIsTrue, SentWhole, AttemptsLeft, Labels, Whole
  <2>3. CASE ~(IsUpload /\ exists)
    <3>1. /\ stored' = stored \cup {i \in 0 .. args.size - 1 : byte <= i /\ i < byte + soffset}
          /\ requests' = requests + 1 /\ byte' = byte + streamSize
          /\ pc' = "loop" /\ UNCHANGED result
      BY <1>7, <2>3 DEF Served, Store, Go
    <3>2. TypeOK' /\ ContIsTrue' /\ AttemptsLeft'
      <4>1. stored' \subseteq 0 .. args'.size - 1
        <5>1. args' = args /\ stored \subseteq 0 .. args.size - 1
          BY <2>1 DEF SendInv, TypeOK
        <5> QED
          BY <3>1, <5>1
      <4>2. requests' \in Nat /\ byte' \in Nat
        BY <3>1 DEF SendInv, TypeOK
      <4>3. mFailureState' \in BOOLEAN /\ pc' \in Labels
        BY <2>1, <3>1 DEF Labels
      <4> QED
        BY <2>1, <3>1, <4>1, <4>2, <4>3 DEF SendInv, TypeOK, ContIsTrue, AttemptsLeft
    <3>3. SentWhole'
      BY <2>1, <3>1 DEF SendInv, EndIsTrue, SentWhole
    <3>4. CountIsTrue'
      BY <2>1, <3>1 DEF SendInv, TypeOK, CountIsTrue
    <3>5. (requests' = 0 => byte' = 0) /\ (result' = "sent" => pc' = "done")
      BY <2>1, <3>1 DEF SendInv, TypeOK, EndIsTrue
    <3>6. ASSUME ~streamCont', lost' = 0 \/ requests' = 1 PROVE Whole'
      <4>1. byte + soffset >= args.size
        BY <2>1, <3>6 DEF SendInv, ContIsTrue
      <4>2. CASE lost = 0
        BY <2>1, <2>3, <3>1, <4>1, <4>2 DEF SendInv, TypeOK, CountIsTrue, Whole
      <4>3. CASE requests' = 1
        <5>1. byte = 0
          BY <3>1, <4>3 DEF SendInv, TypeOK, EndIsTrue
        <5> QED
          BY <2>1, <3>1, <4>1, <5>1, SizesAreNat, SetsOfData DEF SendInv, TypeOK, Whole
      <4> QED
        BY <2>1, <3>6, <4>2, <4>3
    <3> QED
      BY <3>2, <3>3, <3>4, <3>5, <3>6 DEF SendInv, EndIsTrue
  <2> QED
    BY <2>2, <2>3
<1>8. CASE TooLarge
  BY <1>8 DEF TooLarge, Go, serverVars, SendInv, TypeOK, ContIsTrue, CountIsTrue, EndIsTrue,
     SentWhole, AttemptsLeft, Labels, Whole
<1>9. CASE CatchInputSize
  <2>1. streamSize \div 2 \in Nat
    BY DEF SendInv, TypeOK
  <2> QED
    BY <1>9, <2>1 DEF CatchInputSize, Go, Return, serverVars, SendInv, TypeOK, ContIsTrue,
       CountIsTrue, EndIsTrue, SentWhole, AttemptsLeft, Labels, Whole
<1>10. CASE UNCHANGED vars
  BY <1>10 DEF vars, SendInv, TypeOK, ContIsTrue, CountIsTrue, EndIsTrue, SentWhole,
     AttemptsLeft, Labels, Whole
<1> QED
  BY <1>1, <1>2, <1>3, <1>4, <1>5, <1>6, <1>7, <1>8, <1>9, <1>10 DEF Next, Step, Finished

(* SendFile() and its requests keep the invariant. *)
THEOREM SendInvariance == Spec => []SendInv
<1>1. SendInv /\ [Next]_vars => SendInv'
  BY SendStep
<1> QED
  BY SendInit, <1>1, PTL DEF Spec

(* A call that returns has sent everything, if no request was repeated or one was enough
   (BackendImpl::SendFile), however the data is cut by the limits and by httplib. *)
THEOREM AllIsSent == Spec => []SentWhole
<1>1. SendInv => SentWhole
  BY DEF SendInv
<1> QED
  BY SendInvariance, <1>1, PTL

(* A failure for good that the call did not begin with, and no answer has ended, is of the
   last repeat of the request. *)
FailureIsTrue ==
    mFailureState /\ requests > 0 => attempt = MaxRetries /\ pc \in {"stream", "reply", "done"}

(* Answers end a failure, and only the last attempt begins one. *)
LEMMA FailureStep == SendInv /\ FailureIsTrue /\ [Next]_vars => FailureIsTrue'
<1> SUFFICES ASSUME SendInv, FailureIsTrue, [Next]_vars PROVE FailureIsTrue'
  OBVIOUS
<1>1. CASE NextRequest
  BY <1>1 DEF NextRequest, Go, serverVars, FailureIsTrue
<1>2. CASE AllSent
  BY <1>2 DEF AllSent, Return, serverVars, FailureIsTrue
<1>3. CASE Attempt
  <2>1. /\ pc = "attempt" /\ pc' = "stream" /\ UNCHANGED <<attempt, requests>>
        /\ mFailureState' = (mFailureState \/ attempt = MaxRetries)
    BY <1>3 DEF Attempt, Go, serverVars
  <2>2. mFailureState' => mFailureState \/ attempt = MaxRetries
    BY <2>1, Zenon
  <2>3. ~(mFailureState /\ requests > 0)
    BY <2>1 DEF FailureIsTrue
  <2> QED
    BY <2>1, <2>2, <2>3 DEF FailureIsTrue
<1>4. CASE Stream
  BY <1>4 DEF Stream, Go, serverVars, FailureIsTrue
<1>5. CASE EndOfChunk
  BY <1>5 DEF EndOfChunk, Go, Return, serverVars, FailureIsTrue
<1>6. CASE Lose
  BY <1>6 DEF Lose, Go, Return, FailureIsTrue
<1>7. CASE Served
  BY <1>7 DEF Served, FailureIsTrue
<1>8. CASE TooLarge
  BY <1>8 DEF TooLarge, FailureIsTrue
<1>9. CASE CatchInputSize
  BY <1>9 DEF CatchInputSize, Go, Return, serverVars, FailureIsTrue
<1>10. CASE UNCHANGED vars
  BY <1>10 DEF vars, FailureIsTrue
<1> QED
  BY <1>1, <1>2, <1>3, <1>4, <1>5, <1>6, <1>7, <1>8, <1>9, <1>10 DEF Next, Step, Finished

(* However large maxRetries is, a request is repeated only while it may be, and not at all
   after one that failed for good, until an answer brings the repeats back
   (HTTPRunner::DoRequestsAuto). *)
THEOREM RepeatsEnd == Spec => GivesUp
<1> DEFINE Repeat == /\ attempt' > attempt => args.canRetry /\ ~mFailureState /\ attempt < MaxRetries
                     /\ result' = "Endpoint" /\ result # "Endpoint" =>
                          ~args.canRetry \/ attempt = MaxRetries \/ requests = 0
<1>1. SendInv /\ FailureIsTrue /\ [Next]_vars => [Repeat]_vars
  <2> SUFFICES ASSUME SendInv, FailureIsTrue, Next PROVE Repeat
    OBVIOUS
  <2>1. ASSUME attempt' > attempt
        PROVE  args.canRetry /\ ~mFailureState /\ attempt < MaxRetries
    <3>1. Lose
      BY <2>1, BoundsAssumption DEF Next, Step, Finished, NextRequest, AllSent, Attempt, Stream,
         EndOfChunk, Served, TooLarge, CatchInputSize, vars, SendInv, TypeOK
    <3> QED
      BY <2>1, <3>1, BoundsAssumption DEF Lose, SendInv, TypeOK, AttemptsLeft
  <2>2. ASSUME result' = "Endpoint", result # "Endpoint"
        PROVE  ~args.canRetry \/ attempt = MaxRetries \/ requests = 0
    <3>1. Lose
      BY <2>2 DEF Next, Step, Finished, NextRequest, AllSent, Attempt, Stream, EndOfChunk, Served,
         TooLarge, CatchInputSize, Go, Return, vars
    <3>2. ~args.canRetry \/ mFailureState
      BY <2>2, <3>1 DEF Lose, Go
    <3>3. requests \in Nat
      BY DEF SendInv, TypeOK
    <3> QED
      BY <3>2, <3>3 DEF FailureIsTrue
  <2> QED
    BY <2>1, <2>2
<1>2. Init => FailureIsTrue
  BY DEF Init, FailureIsTrue
<1> QED
  BY SendInvariance, FailureStep, <1>1, <1>2, PTL DEF Spec, GivesUp

-----------------------------------------------------------------------------
(* Nothing has been read when the call begins. *)
LEMMA LimitInit == Init => LimitInv
<1>1. Init => Overshoot
  BY DEF Init, Overshoot
<1> QED
  BY <1>1, SendInit DEF LimitInv

(* No piece that writeFunc reads makes a request more than twice its limit. *)
LEMMA LimitStep == LimitInv /\ [Next]_vars => LimitInv'
<1> SUFFICES ASSUME LimitInv, [Next]_vars PROVE Overshoot'
  BY SendStep DEF LimitInv
<1>0. SendInv /\ Overshoot /\ args.size \in Nat \ {0} /\ args.limit \in Nat
  BY SizesAreNat DEF LimitInv, SendInv
<1>1. CASE NextRequest
  BY <1>0, <1>1 DEF NextRequest, Go, serverVars, SendInv, TypeOK, Overshoot
<1>2. CASE AllSent
  BY <1>0, <1>2 DEF AllSent, Return, serverVars, SendInv, TypeOK, Overshoot
<1>3. CASE Attempt
  BY <1>0, <1>3 DEF Attempt, Go, serverVars, SendInv, TypeOK, Overshoot
<1>4. CASE Stream
  <2>1. PICK sread \in Nat :
             /\ soffset' = soffset + sread
             /\ streamCont' \in BOOLEAN
             /\ ~streamCont' => byte + soffset + sread >= args.size
             /\ maxSize # 0 => sread <= maxSize
    BY <1>0, <1>4, StreamReads
  <2>2. /\ pc = "stream" /\ pc' = (IF streamCont' THEN "stream" ELSE "reply")
        /\ ~(maxSize # 0 /\ soffset >= maxSize)
        /\ UNCHANGED <<args, mUploadMaxBytes, byte, maxSize, lost>>
    BY <1>4 DEF Stream, Go
  <2> QED
    BY <1>0, <2>1, <2>2 DEF SendInv, TypeOK, Overshoot
<1>5. CASE EndOfChunk
  BY <1>0, <1>5 DEF EndOfChunk, Go, Return, serverVars, SendInv, TypeOK, Overshoot
<1>6. CASE Lose
  BY <1>0, <1>6 DEF Lose, Go, Return, SendInv, TypeOK, Overshoot
<1>7. CASE Served
  <2>1. lost = 0 => streamSize = soffset
    BY <1>0, <1>7 DEF Served, SendInv, CountIsTrue
  <2>2. lost = 0 /\ byte' > 0 => args.limit > 0
    BY <1>0, <1>7, <2>1 DEF Served, Accepted, Return, serverVars, SendInv, TypeOK, Overshoot
  <2>3. pc' \in {"loop", "done"} /\ UNCHANGED <<args, lost>>
    BY <1>7 DEF Served, Go, Return
  <2> QED
    BY <2>2, <2>3 DEF Overshoot
<1>8. CASE TooLarge
  BY <1>0, <1>8 DEF TooLarge, Accepted, Go, serverVars, SendInv, TypeOK, Overshoot
<1>9. CASE CatchInputSize
  <2>1. pc' \in {"loop", "done"} /\ UNCHANGED <<args, lost, byte>>
    BY <1>9 DEF CatchInputSize, Go, Return
  <2> QED
    BY <1>0, <2>1 DEF Overshoot
<1>10. CASE UNCHANGED vars
  BY <1>0, <1>10 DEF vars, Overshoot
<1> QED
  BY <1>1, <1>2, <1>3, <1>4, <1>5, <1>6, <1>7, <1>8, <1>9, <1>10 DEF Next, Step, Finished

(* Half of what was too large is less than the limit it was made for, and is not nothing,
   as long as UPLOAD_MINSIZE is more than a byte: the next request is smaller, for data,
   buffers and servers of every size (the InputSizeException handler of SendFile). *)
THEOREM LimitGoesDown == ASSUME MinSize > 1 PROVE Spec => AdjustShrinks
<1> DEFINE Shrinks ==
      lost = 0 /\ args.size > 1 /\ mUploadMaxBytes' # mUploadMaxBytes =>
        /\ mUploadMaxBytes' > 0
        /\ mUploadMaxBytes = 0 \/ mUploadMaxBytes' < mUploadMaxBytes
<1>1. LimitInv /\ [Next]_vars => [Shrinks]_vars
  <2> SUFFICES ASSUME LimitInv, Next, lost = 0, args.size > 1,
                      mUploadMaxBytes' # mUploadMaxBytes
               PROVE  /\ mUploadMaxBytes' > 0
                      /\ mUploadMaxBytes = 0 \/ mUploadMaxBytes' < mUploadMaxBytes
    OBVIOUS
  <2>1. /\ pc = "tooLarge" /\ mUploadMaxBytes' = streamSize \div 2
        /\ ~(maxSize # 0 /\ maxSize < MinSize)
    BY DEF Next, Step, Finished, NextRequest, AllSent, Attempt, Stream, EndOfChunk, Lose,
       Served, TooLarge, CatchInputSize, Return, Go, vars
  <2>2. /\ streamSize = soffset /\ maxSize = mUploadMaxBytes /\ soffset > args.limit
        /\ args.size \in Nat /\ args.limit \in Nat
        /\ streamSize \in Nat /\ maxSize \in Nat /\ byte \in Nat
    BY <2>1, SizesAreNat DEF LimitInv, SendInv, TypeOK, CountIsTrue, Overshoot
  <2>3. streamSize >= 2
    <3>1. CASE maxSize # 0 /\ soffset >= maxSize
      BY <2>1, <2>2, <3>1, BoundsAssumption
    <3>2. CASE byte + soffset >= args.size
      BY <2>1, <2>2, <3>2 DEF LimitInv, Overshoot
    <3> QED
      BY <2>1, <3>1, <3>2 DEF LimitInv, Overshoot
  <2>4. maxSize # 0 => streamSize < 2 * maxSize
    BY <2>1, <2>2 DEF LimitInv, Overshoot
  <2>5. \A n \in Nat : 2 * (n \div 2) <= n /\ n <= 2 * (n \div 2) + 1 /\ n \div 2 \in Nat
    OBVIOUS
  <2> QED
    BY <2>1, <2>2, <2>3, <2>4, <2>5
<1> QED
  BY LimitInit, LimitStep, <1>1, PTL DEF Spec, AdjustShrinks
=============================================================================
