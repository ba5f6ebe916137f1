------------------------------ MODULE FileWrite ------------------------------
(* File above PageManager: a storage may take data only in one upload (UPLOAD), only at the
   end (APPEND) or anywhere (RANDOM), and there may be no cache at all.  A write is a
   sequence of steps under the file's write lock, each of which may fail; the pages and
   their flushes are PageManager's. *)
EXTENDS Integers, Sequences, FiniteSets

CONSTANTS
    PageSize, MaxSize, MaxChanges,
    UploadMax,          \* Config::GetUploadMaxBytes, or 0
    WriteFaults         \* "remote": another client changes the file while pages are dirty

VARIABLES
    content,            \* what the file is to be
    server, mBackendExists, mBackendSize, mFileSize, mPages, changes,   \* see PageManager
    mDeferredEvicts,
    file,               \* [writeMode, cacheNone]
    job,                \* the write: its step, offset and data
    aborted             \* an assertion of PageBackend failed

PM == INSTANCE PageManager WITH
    Readers <- {}, MaxFetch <- 1, ReadAhead <- 0, InitialSize <- 0, Faults <- WriteFaults,
    mPendingPages <- {}, mFailedPages <- {}, fetchers <- {}, pc <- <<>>, want <- <<>>,
    writerWaits <- FALSE

storeVars == <<server, mBackendExists, mBackendSize>>
pageVars == <<mFileSize, mPages, mDeferredEvicts>>
writeVars == <<content, storeVars, pageVars, changes, file, job, aborted>>

Modes == {"UPLOAD", "APPEND", "RANDOM"}
Idle == [at |-> "idle"]
Zeros(n) == [k \in 1 .. n |-> 0]
Dirty == PM!DirtyPages(mPages)
Exists == mBackendExists

-----------------------------------------------------------------------------
(* FlushPages(): the runs of dirty pages, and what PageBackend::FlushPageList() asserts of
   them; without a write mode of RANDOM it is the only way pages are flushed *)
RunStarts == {i \in Dirty : i - 1 \notin Dirty}

Refused ==
    CASE file.writeMode = "RANDOM" -> FALSE
      [] file.writeMode = "APPEND" -> \E i \in RunStarts : PM!Start(i) # mBackendSize
      [] file.writeMode = "UPLOAD" -> RunStarts # {} /\ (Exists \/ RunStarts # {0})

FlushPages ==
    /\ job = Idle
    /\ IF Refused THEN aborted' = TRUE /\ UNCHANGED <<storeVars, mPages, mDeferredEvicts>>
       ELSE LET flushed == PM!FlushAll(PM!Cached)
            IN  /\ PM!SetCached([flushed EXCEPT !.pages = PM!Without(@, mDeferredEvicts)])
                /\ mDeferredEvicts' = {} /\ UNCHANGED aborted
    /\ UNCHANGED <<content, mFileSize, changes, file, job>>

(* EvictPage(): a dirty page must stay if it cannot be written alone *)
EvictPage == \E i \in DOMAIN mPages :
    /\ job = Idle /\ i \notin mDeferredEvicts
    /\ IF mPages[i].dirty /\ file.writeMode # "RANDOM"
       THEN mDeferredEvicts' = mDeferredEvicts \cup {i} /\ UNCHANGED <<storeVars, mPages>>
       ELSE /\ LET s == IF mPages[i].dirty THEN PM!FlushRun(PM!Cached, i) ELSE PM!Cached
               IN  PM!SetCached([s EXCEPT !.pages = PM!Without(@, {i})])
            /\ UNCHANGED mDeferredEvicts
    /\ UNCHANGED <<content, mFileSize, changes, file, job, aborted>>

-----------------------------------------------------------------------------
(* RemoteChanged(), called for a size that the server now has *)
Reloaded(size) ==
    LET kept == [i \in Dirty |-> mPages[i]]
        ends == {PM!EndOf(mPages, i) : i \in Dirty} \cup {size}
    IN  /\ mPages' = kept
        /\ mBackendSize' = size
        /\ mFileSize' = CHOOSE e \in ends : \A d \in ends : d <= e

(* BackendImpl::WriteFile at the server, which may refuse it *)
Stored(offset, data) ==
    /\ server' = PM!WriteAt(server, offset, data)
    /\ UNCHANGED <<mBackendExists, mDeferredEvicts>>

Throw == job' = Idle /\ UNCHANGED <<content, storeVars, pageVars>>

(* a step that fails leaves what the steps before it did *)
WriteFails ==
    /\ job # Idle
    /\ job' = Idle /\ content' = PM!View
    /\ UNCHANGED <<storeVars, pageVars, changes, file, aborted>>

(* WriteBytes() without a cache *)
WriteUncached(offset, data) ==
    IF file.writeMode = "UPLOAD" \/ (file.writeMode = "APPEND" /\ offset # mFileSize) THEN Throw
    ELSE /\ Stored(offset, data)
         /\ Reloaded(PM!Larger(mFileSize, offset + Len(data)))
         /\ content' = PM!WriteAt(content, offset, data)
         /\ job' = Idle

Denied(offset, end) ==
    \/ file.writeMode = "UPLOAD" /\ (Exists \/ (UploadMax > 0 /\ end > UploadMax))
    \/ file.writeMode = "APPEND" /\ Exists /\ offset < mBackendSize

(* WriteBytes(), to the end of its checks *)
WriteBytes ==
    /\ job = Idle /\ changes < MaxChanges /\ changes' = changes + 1
    /\ \E offset \in 0 .. MaxSize - 1 : \E length \in 1 .. MaxSize - offset :
         LET data == [k \in 1 .. length |-> changes + 1]
         IN  IF file.cacheNone THEN WriteUncached(offset, data)
             ELSE IF Denied(offset, offset + length) THEN Throw
             ELSE /\ job' = [at |-> IF file.writeMode = "APPEND" /\ Exists THEN "align"
                                    ELSE IF file.writeMode = "RANDOM" THEN "pages" ELSE "hole",
                             offset |-> offset, data |-> data]
                  /\ content' = PM!WriteAt(content, offset, data)
                  /\ UNCHANGED <<storeVars, pageVars>>
    /\ UNCHANGED <<file, aborted>>

(* mutant of AlignZeros: the gap before the data is not filled *)
AlignZerosNone(offset, writeSize) == 0

AlignZeros(offset, writeSize) == PM!Smaller(offset - mBackendSize, writeSize)

(* FixPageAlignment(): what is missing of the server's last page is written at once *)
FixPageAlignment ==
    LET length == Len(job.data)
        pageError == mBackendSize % PageSize
        writeSize == PM!Smaller(job.offset + length - mBackendSize, PageSize - pageError)
        fromZero == AlignZeros(job.offset, writeSize)
        fromBuffer == IF fromZero < writeSize THEN writeSize - fromZero ELSE 0
    IN  /\ job.at = "align"
        /\ IF pageError = 0
           THEN job' = [job EXCEPT !.at = "hole"] /\ UNCHANGED <<storeVars, pageVars>>
           ELSE /\ Stored(mBackendSize, Zeros(fromZero) \o SubSeq(job.data, 1, fromBuffer))
                /\ Reloaded(mBackendSize + writeSize)
                /\ job' = [at |-> "hole", offset |-> job.offset + fromBuffer,
                           data |-> SubSeq(job.data, fromBuffer + 1, length)]
        /\ UNCHANGED <<content, changes, file, aborted>>

(* WritePage() of as much of some data as fits into the page that it starts in *)
WriteChunk(offset, data) ==
    LET i == offset \div PageSize
    IN  /\ PM!WriteIn(i, offset - PM!Start(i), data)
        /\ UNCHANGED <<content, storeVars, mDeferredEvicts, changes, file, aborted>>

InPage(offset) == PageSize - (offset % PageSize)

(* FillWriteHole(): zeros from the end of the file on, so that what is uploaded has no gap *)
FillWriteHole ==
    /\ job.at = "hole"
    /\ IF mFileSize >= job.offset
       THEN /\ job' = [job EXCEPT !.at = "pages"]
            /\ UNCHANGED <<content, storeVars, pageVars, changes, file, aborted>>
       ELSE /\ WriteChunk(mFileSize, Zeros(PM!Smaller(job.offset - mFileSize, InPage(mFileSize))))
            /\ UNCHANGED job

WritePages ==
    LET length == PM!Smaller(Len(job.data), InPage(job.offset))
    IN  /\ job.at = "pages"
        /\ IF job.data = <<>>
           THEN job' = Idle /\ UNCHANGED <<content, storeVars, pageVars, changes, file, aborted>>
           ELSE /\ WriteChunk(job.offset, SubSeq(job.data, 1, length))
                /\ job' = [job EXCEPT !.offset = @ + length, !.data = SubSeq(@, length + 1, Len(@))]

(* File::Truncate *)
Truncate ==
    /\ job = Idle /\ changes < MaxChanges /\ changes' = changes + 1
    /\ \E newSize \in 0 .. MaxSize :
         IF file.writeMode = "UPLOAD" \/ (file.writeMode = "APPEND" /\ newSize # 0) THEN Throw
         ELSE /\ PM!TruncateTo(newSize)
              /\ content' = PM!Resize(content, newSize)
              /\ UNCHANGED <<mDeferredEvicts, job>>
    /\ UNCHANGED <<file, aborted>>

-----------------------------------------------------------------------------
(* PageManager::ReadPage() *)
ReadPage(i, offset, length) ==
    LET start == PM!Start(i) + offset IN SubSeq(PM!View, start + 1, start + length)

(* page after page, or the server's data at once *)
ReadBytes(offset, length) ==
    LET end == offset + length
        from[byte \in offset .. end] ==
            IF byte = end THEN <<>>
            ELSE LET i == byte \div PageSize
                     pLength == PM!Smaller(end - byte, InPage(byte))
                 IN  ReadPage(i, byte - PM!Start(i), pLength) \o from[byte + pLength]
    IN  IF file.cacheNone THEN SubSeq(server, offset + 1, end) ELSE from[offset]

ReadBytesMax(offset, maxLength) ==
    IF offset >= mFileSize THEN <<>>
    ELSE ReadBytes(offset, PM!Smaller(mFileSize - offset, maxLength))

-----------------------------------------------------------------------------
(* another client has changed the size of the file *)
RemoteChanged ==
    /\ job = Idle
    /\ PM!RemoteChanged
    /\ UNCHANGED <<mDeferredEvicts, file, job, aborted>>

WriteInit ==
    /\ file \in [writeMode : Modes, cacheNone : BOOLEAN]
    /\ mBackendExists \in BOOLEAN /\ (file.cacheNone => mBackendExists)
    /\ mBackendSize \in IF mBackendExists THEN 0 .. PageSize + 1 ELSE {0}
    /\ server = [k \in 1 .. mBackendSize |-> 1]
    /\ content = server /\ mFileSize = mBackendSize
    /\ mPages = <<>> /\ mDeferredEvicts = {}
    /\ changes = 1 /\ job = Idle /\ aborted = FALSE

WriteNext ==
    /\ ~aborted
    /\ \/ WriteBytes \/ WriteFails \/ FixPageAlignment \/ FillWriteHole \/ WritePages
       \/ Truncate \/ FlushPages \/ EvictPage \/ RemoteChanged

(* In every write mode, with and without a cache, a read at any place and of any length gives
   what was written there, with zeros in the gaps, and after a flush so is the file at the
   server; and a flush never asks of a storage what its mode does not allow (WriteBytes,
   FixPageAlignment, FillWriteHole, Truncate, ReadBytesMax, PageBackend::FlushPageList). *)
WrittenIsRead ==
    /\ job = Idle => \A offset \in 0 .. MaxSize, maxLength \in 1 .. MaxSize :
         ReadBytesMax(offset, maxLength)
             = SubSeq(content, offset + 1, PM!Smaller(offset + maxLength, Len(content)))
    /\ job = Idle /\ Dirty = {} /\ Exists => server = content
    /\ ~aborted
=============================================================================
