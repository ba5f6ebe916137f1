------------------------------- MODULE MCParts -------------------------------
(* The parts of the programs that share no state with each other: a behaviour runs one of
   them, `part', and leaves the variables of the others alone, in one initial state or, where
   a property is not of the part itself, at rest.  Modules that need names of their own have
   an instance, whose bounds are there; the others' are in Parts.cfg. *)
EXTENDS ObjectDatabase, FieldLife, Installer, OrderedMap, FetchFile, Waiting, BackendSession,
        BackendCalls, Requests, FuseMount, TLC

CONSTANTS t1, t2, t3, o1, o2, id1, id2, v1, Empty

VARIABLES part,
    query, meant,
    str, other,
    local, server, options, broken,
    content, fileServer, mBackendExists, mBackendSize, mFileSize, mPages, changes,
    mDeferredEvicts, file, job, aborted,
    owned, mFreeQueue, mapped, mCurAlloc, mMaxAlloc, mCurFree, task,
    program, files, line, env, action, source, opts, argInput, result

(* the settings of a command line or of a file, the parameters of an action *)
Setting(n, v, f) == [name |-> n, val |-> v, form |-> f]
Flag(n) == Setting(n, "no value", "eq")
Param(n, s, v, f) == [name |-> n, special |-> s, val |-> v, as |-> "no value", form |-> f]

FileSettings == {<<>>, <<Setting("apiurl", "u1", "eq")>>,
    <<Setting("max-retries", "0", "eq"), Setting("apiurl", "url with a folder", "eq")>>}
GuiFileSettings == {<<>>, <<Setting("max-dirty", "7", "eq")>>}
InFiles(settings) == [{"lib", "own", "extra"} -> settings]

MountSettings == {Setting("a", "u2", "next"), Setting("apiurl", "u3", "eq"),
    Setting("max-retries", "7", "next"), Setting("c", "extra", "glued"),
    Setting("rf", "id", "eq"), Setting("rf", "other id", "glued"), Flag("folder"),
    Flag("allow-unsafe-url"), Setting("evict-frac", "0", "eq"), Flag("help")}
GuiSettings == {Setting("evict-frac", "7", "next"), Setting("max-dirty", "0", "eq"),
    Setting("c", "extra", "next"), Flag("no-cachemgr"), Setting("a", "u", "eq")}
CliLines == {<<Setting("a", "u", "next")>>, <<Setting("a", "u", "eq"), Flag("allow-unsafe-url")>>,
    <<Flag("stream-out"), Setting("apiurl", "u", "glued")>>, <<>>}
Params == {Param("x", "", "v", "next"), Param("x", "", "no value", "next"),
    Param("password", "", "v", "eq"), Param("y", "@", "f", "eq"), Param("y", "@", "h", "next"),
    Param("x", "!", "no value", "next"), Param("y", "%", "f", "next"),
    [Param("y", "%", "f", "next") EXCEPT !.as = "g"],
    Param("z", "-", "no value", "next"), Param("z", "-", "n", "next")}

Input(p, f, l, e, a) == [program |-> p, files |-> f, line |-> l, env |-> e, action |-> a]
Inputs ==
    {Input("fuse", f, <<Setting("m", "dir", "next"), Setting("u", "me", "glued"), s, t>>, <<>>, <<>>) :
        f \in InFiles(FileSettings), s, t \in MountSettings}
    \cup {Input("gui", f, <<s>>, <<>>, <<>>) : f \in InFiles(GuiFileSettings), s \in GuiSettings}
    \cup {Input("cli", f, l, e, <<p, q>>) : f \in InFiles({<<>>}), l \in CliLines,
             e \in {<<>>, <<[name |-> "x", val |-> "env"]>>}, p, q \in Params}

(* answers by which the server refuses a request *)
ServerRefusals == {[code |-> 403, message |-> "READ_ONLY_STORAGE"], [code |-> 403, message |-> "DENIED"],
    [code |-> 400, message |-> "FILESYSTEM_MISMATCH"], [code |-> 400, message |-> "INPUT_FILE_MISSING"]}

QB == INSTANCE QueryBuilder WITH Columns <- {"k"}, Vals <- {0, 1}, MaxParams <- 2, MaxWhere <- 2
ST == INSTANCE Strings WITH
    bytesMul <- 4, Width <- 14, MaxLen <- 4, Characters <- {"a", "/", "%", "\\"}
FO == INSTANCE FuseOps WITH
    FuseNames <- {"a", "b"}, FuseIds <- {"i1", "i2", "i3"}, Root <- "root",
    MaxDepth <- 3, UnsavedReplace <- FALSE,
    Answers <- {"ok", "ReadOnlyFS", "AuthenticationFailed", "Connection", "NotAtServer"}
FW == INSTANCE FileWrite WITH
    PageSize <- 2, MaxSize <- 5, MaxChanges <- 4, UploadMax <- 4, WriteFaults <- {}, server <- fileServer
ME == INSTANCE Memory WITH
    MemThreads <- {1, 2}, mBaseline <- 2, MaxPages <- 3, MaxAlloc <- 4, OsPages <- 6
AG == INSTANCE Arguments WITH Files <- <<"lib", "own">>, Extra <- "extra", input <- argInput

(* Constants that Parts.cfg cannot give *)
ObjectValues == {Zero, v1}
OwnParameter == <<"own", 0>>

queryVars == <<query, meant>>
stringsVars == <<str, other>>
fuseVars == <<local, server, options, broken>>
writeVars == <<content, fileServer, mBackendExists, mBackendSize, mFileSize, mPages, changes,
               mDeferredEvicts, file, job, aborted>>
memoryVars == <<owned, mFreeQueue, mapped, mCurAlloc, mMaxAlloc, mCurFree, task>>
argumentsVars == <<program, files, line, env, action, source, opts, argInput, result>>
vars == <<part, databaseVars, fieldVars, queryVars, installVars, stringsVars, mapVars, fetchVars,
          poolVars, semVars, sessionVars, callVars, requestVars, mountVars, fuseVars,
          writeVars, memoryVars, argumentsVars>>

AtRest == "at rest"

Init ==
    /\ part \in {"objects", "field", "query", "install", "strings", "map", "fetch", "pool",
                 "semaphor", "sessions", "calls", "requests", "mount", "fuse", "write", "memory",
                 "arguments"}
    /\ DatabaseInit /\ InstallInit /\ MapInit /\ PoolInit /\ SemInit /\ SessionInit
    /\ FieldInit /\ (part # "field" => field = NullScalar)
    /\ FetchInit
    /\ part # "fetch" => /\ fetch.index = 0 /\ fetch.count = 1 /\ fetch.size = 5
                        /\ ~fetch.canRetry /\ ~mFailureState
    /\ CallInit
    /\ part # "calls" => /\ \A i \in CallIds : items[i] = NoItem
                        /\ ~callMode.option /\ ~callMode.server /\ ~callMode.memory
    /\ RequestInit
    /\ part # "requests" => /\ runner.kind = "http" /\ runner.follow /\ runner.base.own = {}
                           /\ runner.base.host = "h1" /\ runner.base.path = "/a"
    /\ MountInit /\ (part # "mount" => lib = 3 /\ mode = "THREAD" /\ directory = "none")
    /\ IF part = "query" THEN QB!QueryInit
       ELSE query = AtRest /\ meant = AtRest
    /\ IF part = "strings" THEN ST!StringInit
       ELSE str = AtRest /\ other = AtRest
    /\ IF part = "fuse" THEN FO!FuseInit
       ELSE local = AtRest /\ server = AtRest /\ options = AtRest /\ broken = AtRest
    /\ IF part = "write" THEN FW!WriteInit
       ELSE /\ content = AtRest /\ fileServer = AtRest /\ mBackendExists = AtRest
          /\ mBackendSize = AtRest /\ mFileSize = AtRest /\ mPages = AtRest /\ changes = AtRest
          /\ mDeferredEvicts = AtRest /\ file = AtRest /\ job = AtRest /\ aborted = AtRest
    /\ IF part = "memory" THEN ME!MemInit
       ELSE /\ owned = AtRest /\ mFreeQueue = AtRest /\ mapped = AtRest /\ mCurAlloc = AtRest
          /\ mMaxAlloc = AtRest /\ mCurFree = AtRest /\ task = AtRest
    /\ IF part = "arguments" THEN AG!ArgInit
       ELSE /\ program = AtRest /\ files = AtRest /\ line = AtRest /\ env = AtRest /\ action = AtRest
          /\ source = AtRest /\ opts = AtRest /\ argInput = AtRest /\ result = AtRest

Next ==
    /\ UNCHANGED part
    /\ IF part = "objects" THEN DatabaseNext ELSE UNCHANGED databaseVars
    /\ IF part = "field" THEN FieldNext ELSE UNCHANGED fieldVars
    /\ IF part = "query" THEN QB!QueryNext ELSE UNCHANGED queryVars
    /\ IF part = "install" THEN InstallNext ELSE UNCHANGED installVars
    /\ IF part = "strings" THEN ST!StringNext ELSE UNCHANGED stringsVars
    /\ IF part = "map" THEN MapNext ELSE UNCHANGED mapVars
    /\ IF part = "fetch" THEN FetchNext ELSE UNCHANGED fetchVars
    /\ IF part = "pool" THEN PoolNext ELSE UNCHANGED poolVars
    /\ IF part = "semaphor" THEN SemNext ELSE UNCHANGED semVars
    /\ IF part = "sessions" THEN SessionNext ELSE UNCHANGED sessionVars
    /\ IF part = "calls" THEN CallNext ELSE UNCHANGED callVars
    /\ IF part = "requests" THEN RequestNext ELSE UNCHANGED requestVars
    /\ IF part = "mount" THEN MountNext ELSE UNCHANGED mountVars
    /\ IF part = "fuse" THEN FO!FuseNext ELSE UNCHANGED fuseVars
    /\ IF part = "write" THEN FW!WriteNext ELSE UNCHANGED writeVars
    /\ IF part = "memory" THEN ME!MemNext ELSE UNCHANGED memoryVars
    /\ IF part = "arguments" THEN AG!ArgNext ELSE UNCHANGED argumentsVars

Spec == Init /\ [][Next]_vars

(* the threads, objects and ids of ObjectDatabase *)
Symmetry == Permutations({t1, t2}) \cup Permutations({o1, o2}) \cup Permutations({id1, id2})

(* The properties of the parts that have an instance, as their modules state them; those of
   the others are properties of the run as they are. *)
SelectsMeant == part = "query" => QB!SelectsMeant
TextIsKept == part = "strings" => ST!TextIsKept
CallsKeepWord == part = "fuse" => FO!CallsKeepWord
SeenIsStored == part = "fuse" => FO!SeenIsStored
WrittenIsRead == part = "write" => FW!WrittenIsRead
MemoryIsWhole == part = "memory" => ME!MemoryIsWhole
ArgsAreMeant == part = "arguments" => AG!ArgsAreMeant
=============================================================================
