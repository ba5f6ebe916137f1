------------------------------ MODULE FetchFile ------------------------------
(* Fetching pages from the server: PageBackend::FetchPages() through BackendImpl::ReadFile()
   and HTTPRunner's StreamOut with its repeats.  What httplib receives of a response's body
   goes to the page that is being filled, before the whole response is known to be good.
   A byte of the file is named by its offset there. *)
EXTENDS Integers

CONSTANTS
    PageSize, FileSizes, MaxPages,
    BodySizes,       \* bytes in the body of a 500 or 503
    MaxPiece,        \* httplib hands over at most this much at a time
    MaxRetries,      \* RunnerOptions::maxRetries
    MaxLost          \* bound: attempts that fail on the way

VARIABLES
    fetch,           \* the arguments, and the size PageBackend has for the file
    http,            \* the attempt: its number, canRetry, offset, and what is left of the body
    mFailureState,
    read,            \* ReadFile: the most that was received
    chunk,           \* what recvFunc was given and FetchPages has not copied yet
    curIndex, curPage,
    handed,          \* pages given to pageHandler
    fetchPc, lost

fetchVars == <<fetch, http, mFailureState, read, chunk, curIndex, curPage, handed, fetchPc, lost>>

Body == -1           \* a byte of an error's body
Junk == -2           \* a byte that was not written
NoPage == [size |-> 0]

Smaller(a, b) == IF a < b THEN a ELSE b
Larger(a, b) == IF a > b THEN a ELSE b

readSize == Smaller(fetch.size - fetch.index * PageSize, PageSize * fetch.count)

(* mBackendSize-curPageStart is unsigned: past the end a page is taken for a full one *)
SizeOf(page) ==
    IF page * PageSize < fetch.size THEN Smaller(fetch.size - page * PageSize, PageSize) ELSE PageSize

FetchInit ==
    /\ fetch \in [index : 0 .. MaxPages, count : 1 .. MaxPages, size : FileSizes, canRetry : BOOLEAN]
    /\ (fetch.index + fetch.count - 1) * PageSize < fetch.size
    /\ http = [attempt |-> 0, canRetry |-> FALSE, offset |-> 0, left |-> 0, ok |-> FALSE]
    /\ mFailureState \in BOOLEAN
    /\ read = 0 /\ chunk = [rbyte |-> 0, end |-> 0]
    /\ curIndex = fetch.index /\ curPage = NoPage /\ handed = << >>
    /\ fetchPc = "attempt" /\ lost = 0

(* DoRequestsCustom: the head of its loop *)
StartAttempt ==
    /\ fetchPc = "attempt"
    /\ mFailureState' = (mFailureState \/ http.attempt = MaxRetries)
    /\ http' = [http EXCEPT !.canRetry = fetch.canRetry /\ ~mFailureState']
    /\ fetchPc' = "request"
    /\ UNCHANGED <<fetch, read, chunk, curIndex, curPage, handed, lost>>

(* HandleNonResponse *)
AgainOrThrow ==
    IF http.canRetry THEN fetchPc' = "attempt" /\ http' = [http EXCEPT !.attempt = @ + 1]
    ELSE fetchPc' = "Endpoint" /\ UNCHANGED http

(* no response, or none to the end *)
Lost ==
    /\ fetchPc \in {"request", "body"} /\ lost < MaxLost
    /\ lost' = lost + 1
    /\ AgainOrThrow
    /\ UNCHANGED <<fetch, mFailureState, read, chunk, curIndex, curPage, handed>>

(* respFunc: the file, which may have become shorter or longer at the server *)
ResponseOk ==
    /\ fetchPc = "request"
    /\ \E length \in readSize - 1 .. readSize + 1 :
         http' = [http EXCEPT !.offset = 0, !.left = length, !.ok = TRUE]
    /\ mFailureState' = FALSE /\ fetchPc' = "body"
    /\ UNCHANGED <<fetch, read, chunk, curIndex, curPage, handed, lost>>

(* respFunc: doRetry is set, and the body is streamed all the same *)
ResponseBusy ==
    /\ fetchPc = "request" /\ lost < MaxLost
    /\ lost' = lost + 1
    /\ IF http.canRetry
       THEN /\ fetchPc' = "body"
            /\ \E length \in BodySizes :
                 http' = [http EXCEPT !.offset = 0, !.left = length, !.ok = FALSE]
       ELSE fetchPc' = "Endpoint" /\ UNCHANGED http
    /\ UNCHANGED <<fetch, mFailureState, read, chunk, curIndex, curPage, handed>>

ResponseError ==
    /\ fetchPc = "request"
    /\ mFailureState' = FALSE /\ fetchPc' = "Endpoint"
    /\ UNCHANGED <<fetch, http, read, chunk, curIndex, curPage, handed, lost>>

(* recvFunc and ReadFile's streamer *)
Receive ==
    /\ fetchPc = "body" /\ http.left > 0
    /\ \E length \in 1 .. Smaller(http.left, MaxPiece) :
         LET end == http.offset + length
         IN  IF end > readSize THEN fetchPc' = "ReadSize" /\ UNCHANGED <<http, read, chunk>>
             ELSE /\ read' = Larger(read, end)
                  /\ chunk' = [rbyte |-> http.offset, end |-> end]
                  /\ http' = [http EXCEPT !.offset = end, !.left = @ - length]
                  /\ fetchPc' = "copy"
    /\ UNCHANGED <<fetch, mFailureState, curIndex, curPage, handed, lost>>

(* mutant of Relevant: a repeat is taken for the rest of the file *)
RelevantAlways(rindex) == TRUE

(* data of a page that is done already is ignored *)
Relevant(rindex) == rindex = curIndex - fetch.index

(* FetchPages: a turn of the loop over the pages in the chunk *)
CopyPiece ==
    LET page == IF curPage = NoPage
                THEN [size |-> SizeOf(curIndex), data |-> [o \in 0 .. SizeOf(curIndex) - 1 |-> Junk]]
                ELSE curPage
        rindex == chunk.rbyte \div PageSize
        from == chunk.rbyte % PageSize
        to == Smaller(from + chunk.end - chunk.rbyte, PageSize)
        source(o) == IF http.ok THEN (fetch.index + rindex) * PageSize + o ELSE Body
        filled == [o \in DOMAIN page.data |-> IF from <= o /\ o < to THEN source(o) ELSE page.data[o]]
    IN  /\ fetchPc = "copy"
        /\ IF Relevant(rindex) /\ to = page.size
           THEN /\ handed' = [p \in DOMAIN handed \cup {curIndex} |->
                                 IF p = curIndex THEN filled ELSE handed[p]]
                /\ curPage' = NoPage /\ curIndex' = curIndex + 1
           ELSE /\ curPage' = [page EXCEPT !.data = IF Relevant(rindex) THEN filled ELSE @]
                /\ UNCHANGED <<handed, curIndex>>
        /\ chunk' = [chunk EXCEPT !.rbyte = @ + to - from]
        /\ fetchPc' = IF chunk'.rbyte = chunk.end THEN "body" ELSE "copy"
        /\ UNCHANGED <<fetch, http, mFailureState, read, lost>>

(* the response is complete: repeated if it was a 503, or the end of ReadFile and of
   FetchPages, whose assertion fails if a page was begun and not finished: "unfinished" *)
Complete ==
    /\ fetchPc = "body" /\ http.left = 0
    /\ IF ~http.ok THEN AgainOrThrow
       ELSE /\ fetchPc' = IF read < readSize THEN "ReadSize"
                     ELSE IF curPage # NoPage THEN "unfinished" ELSE "ok"
            /\ UNCHANGED http
    /\ UNCHANGED <<fetch, mFailureState, read, chunk, curIndex, curPage, handed, lost>>

FetchNext == StartAttempt \/ Lost \/ ResponseOk \/ ResponseBusy \/ ResponseError \/ Receive
             \/ CopyPiece \/ Complete

FetchSpec == FetchInit /\ [][FetchNext]_fetchVars

FilePage(p) == [o \in 0 .. SizeOf(p) - 1 |-> p * PageSize + o]
BodyPage(p) == [o \in 0 .. SizeOf(p) - 1 |-> Body]

(* However often the request is repeated, and wherever it broke off, a page that is handed
   over has all of its bytes, of one response, and the file's, and a fetch that returns has
   handed over every page (FetchPages, ReadFile, StreamOut).  Two cases are excepted, in which
   the code does otherwise: where requests may be repeated, the body of a 503 that reaches the
   end of a page is handed over as that page; and after a repeat, the assertion that no page
   is unfinished can fail (NoneUnfinished).  Of a first attempt it holds. *)
PagesAreFile ==
    /\ \A p \in DOMAIN handed :
         /\ p * PageSize < fetch.size
         /\ \/ handed[p] = FilePage(p)
            \/ /\ handed[p] = BodyPage(p) /\ fetch.canRetry
               /\ \E b \in BodySizes : b >= (p - fetch.index) * PageSize + SizeOf(p)
    /\ fetchPc = "ok" => DOMAIN handed = fetch.index .. fetch.index + fetch.count - 1
    /\ fetchPc = "unfinished" => http.attempt > 0

(* The assertion at the end of FetchPages: a fetch that gets its whole answer leaves no page
   unfinished, repeats, whose bytes of other pages are "ignored", included.  It fails: the
   bytes that are ignored have begun the next page by then. *)
NoneUnfinished == fetchPc # "unfinished"
=============================================================================
