------------------------------ MODULE Arguments ------------------------------
(* What a program makes of its configuration files and of its command line: BaseOptions
   parses them, each program's Options takes what it knows, and andromeda-cli makes a
   request of what follows "--" and of its environment. *)
EXTENDS Integers, Sequences, FiniteSets, SequencesExt

CONSTANTS
    Files, Extra,           \* the configuration files that are looked for, and another one
    Inputs                  \* records: the program, what is in the files, the settings of the
                            \* command line, the environment, the parameters of an action

VARIABLES
    program, files, line, env, action,  \* the input
    source,                             \* how much of it has been read
    opts,                               \* the options' members, [field -> value]
    input,                              \* CommandLine's request
    result

argVars == <<program, files, line, env, action, source, opts, input, result>>

NoVal == "no value"
Numbers == {"0", "7", "755"}

(* The names of options, in the order in which a multimap has them *)
Alphabetical == <<"a", "apipath", "apiurl", "backend-runners", "c", "cachemode", "config", "d",
    "debug", "debug-filter", "debug-log", "dir-mode", "dir-refresh", "evict-frac", "file-mode",
    "folder", "fuse-max-idle-threads", "hproxy-host", "hproxy-pass", "hproxy-port", "hproxy-user",
    "http-pass", "http-user", "m", "max-dirty", "max-retries", "memory-limit", "mountpath", "o",
    "option", "p", "pagesize", "password", "read-ahead", "read-ahead-buffer",
    "read-max-cache-frac", "req-timeout", "retry-time", "rf", "ri", "sessionid", "sessionkey",
    "storage", "stream-buffer-size", "u", "username">>
Rank(name) == CHOOSE i \in DOMAIN Alphabetical : Alphabetical[i] = name

-----------------------------------------------------------------------------
(* Who knows which options and flags, and what values they take *)
RunnerNames == {"req-timeout", "max-retries", "retry-time", "stream-buffer-size"}
HttpNames == {"http-user", "http-pass", "hproxy-host", "hproxy-port", "hproxy-user", "hproxy-pass"}
CacheNames == {"max-dirty", "memory-limit", "evict-frac"}
ConfigNames == {"cachemode", "dir-refresh", "backend-runners", "pagesize", "read-ahead",
                "read-max-cache-frac", "read-ahead-buffer"}
FuseNames == {"o", "option", "file-mode", "dir-mode", "fuse-max-idle-threads"}
BaseNames == {"c", "config", "d", "debug", "debug-filter", "debug-log"}

CliNames == {"a", "apiurl"} \cup BaseNames \cup HttpNames \cup RunnerNames
MountNames == {"a", "apiurl", "p", "apipath", "u", "username", "password", "sessionid", "sessionkey",
               "ri", "storage", "rf", "folder", "m", "mountpath"}
              \cup BaseNames \cup ConfigNames \cup HttpNames \cup RunnerNames \cup CacheNames \cup FuseNames
GuiNames == BaseNames \cup CacheNames

Names == CASE program = "cli" -> CliNames
           [] program = "fuse" -> MountNames
           [] program = "gui" -> GuiNames

ConfigFlags == {"q", "quiet", "r", "read-only"}
HttpFlags == {"no-tls-verify", "no-http-redirect"}
CacheFlags == {"no-cachemgr"}
FuseFlags == {"no-chmod", "no-chown", "no-fuse-threading"}

CliFlags == {"stream-out", "allow-unsafe-url"} \cup HttpFlags
MountFlags == {"p", "apipath", "force-session", "storage", "folder", "d", "debug"}
              \cup ConfigFlags \cup HttpFlags \cup CacheFlags \cup FuseFlags
GuiFlags == CacheFlags

Flags == CASE program = "cli" -> CliFlags
           [] program = "fuse" -> MountFlags
           [] program = "gui" -> GuiFlags
ShowFlags == {"h", "help", "V", "version"} \cup IF program = "fuse" THEN {"dump-fuse-options"} ELSE {}

Positive == {"backend-runners", "pagesize", "read-max-cache-frac", "evict-frac", "stream-buffer-size"}
Numeric == Positive \cup {"dir-refresh", "read-ahead", "read-ahead-buffer", "max-dirty", "memory-limit",
    "req-timeout", "max-retries", "retry-time", "hproxy-port", "fuse-max-idle-threads", "d", "debug"}

Accepts(name, val) ==
    /\ name \in Numeric => val \in Numbers
    /\ name \in Positive => val # "0"
    /\ name \in {"file-mode", "dir-mode"} => val = "755"
    /\ name = "cachemode" => val \in {"none", "memory", "normal"}
    /\ name \in {"c", "config"} => val = Extra

(* The members that an option sets.  A URL may name the folder to mount. *)
UrlFolder == "url with a folder"

Sets(name, val) ==
    CASE name \in {"a", "apiurl"} ->
           (IF program = "fuse" /\ val = UrlFolder
            THEN {<<"mMountItemID", "the URL's">>, <<"mMountRootType", "FOLDER">>} ELSE {})
           \cup {<<"mApiPath", val>>, <<"mApiType", "API_URL">>}
      [] name \in {"p", "apipath"} -> {<<"mApiPath", val>>, <<"mApiType", "API_PATH">>}
      [] name \in {"ri", "storage"} -> {<<"mMountItemID", val>>, <<"mMountRootType", "STORAGE">>}
      [] name \in {"rf", "folder"} -> {<<"mMountItemID", val>>, <<"mMountRootType", "FOLDER">>}
      [] name \in {"m", "mountpath"} -> {<<"mMountPath", val>>}
      [] name \in {"u", "username"} -> {<<"mUsername", val>>}
      [] name \in {"d", "debug"} -> {<<"level", val>>} \cup
           (IF program = "fuse" THEN {<<"mForeground", "true">>} ELSE {})
      [] name \in {"o", "option"} -> {<<<<"fuseArgs", val>>, "true">>}      \* a list
      [] OTHER -> {<<name, val>>}

FlagSets(flag) ==
    CASE flag \in {"p", "apipath"} -> {<<"mApiType", "API_PATH">>}
      [] flag = "storage" -> {<<"mMountRootType", "STORAGE">>}
      [] flag = "folder" -> {<<"mMountRootType", "FOLDER">>}
      [] flag \in {"d", "debug"} -> {<<"mForeground", "true">>}
      [] flag \in {"q", "quiet"} -> {<<"quiet", "true">>}
      [] flag \in {"r", "read-only"} -> {<<"readOnly", "true">>}
      [] OTHER -> {<<flag, "true">>}

-----------------------------------------------------------------------------
(* ParseArgs(): words to settings.  A word is an argument without a dash; an argument with
   one holds a name and perhaps, after "=" or glued to one letter, a value; "stop" is "--". *)
Word(w) == [is |-> "word", val |-> w]
Setting(name, val) == [name |-> name, val |-> val]

Parse(args) ==
    LET from[i \in 1 .. Len(args) + 1] ==
            IF i > Len(args) THEN [ok |-> TRUE, settings |-> <<>>, shift |-> i]
            ELSE CASE args[i].is = "word" -> [ok |-> FALSE, settings |-> <<>>, shift |-> i]
                   [] args[i].is = "stop" -> [ok |-> program = "cli", settings |-> <<>>, shift |-> i + 1]
                   [] args[i].is \in {"eq", "glued"} ->
                        [from[i + 1] EXCEPT !.settings = <<Setting(args[i].name, args[i].val)>> \o @]
                   [] args[i].is = "name" /\ i < Len(args) /\ args[i + 1].is = "word" ->
                        [(IF i + 2 > Len(args) THEN [ok |-> TRUE, settings |-> <<>>, shift |-> i + 2]
                          ELSE from[i + 2])
                         EXCEPT !.settings = <<Setting(args[i].name, args[i + 1].val)>> \o @]
                   [] OTHER -> [from[i + 1] EXCEPT !.settings = <<Setting(args[i].name, NoVal)>> \o @]
    IN  from[1]

(* mutant of InOrder: a name that is given twice is only taken once *)
InOrderFirst(settings) ==
    LET flags == SelectSeq(settings, LAMBDA s : s.val = NoVal)
        of(name) == SelectSeq(settings, LAMBDA s : s.val # NoVal /\ s.name = name)
        names == SelectSeq(Alphabetical, LAMBDA name : of(name) # <<>>)
    IN  FoldLeft(LAMBDA done, name : Append(done, Head(of(name))), flags, names)

(* The flags come first, then the options by name, those of a name as they were given *)
InOrder(settings) ==
    LET flags == SelectSeq(settings, LAMBDA s : s.val = NoVal)
        of(name) == SelectSeq(settings, LAMBDA s : s.val # NoVal /\ s.name = name)
        names == SelectSeq(Alphabetical, LAMBDA name : \E i \in DOMAIN settings : settings[i].name = name)
    IN  FoldLeft(LAMBDA done, name : done \o of(name), flags, names)

Known(s) ==
    IF s.val = NoVal THEN s.name \in Flags
    ELSE s.name \in Names /\ Accepts(s.name, s.val)

Meaning(s) == IF s.val = NoVal THEN FlagSets(s.name) ELSE Sets(s.name, s.val)

Assign(done, s) ==
    LET new == Meaning(s)
    IN  [f \in DOMAIN done \cup {p[1] : p \in new} |->
            IF \E p \in new : p[1] = f THEN (CHOOSE p \in new : p[1] = f)[2] ELSE done[f]]

(* AddFlag() and AddOption() of all settings of a source; a configuration file that one of
   them names is read on the way.  It may not name another here. *)
Opened(s) == IF s.val # NoVal /\ s.name \in {"c", "config"} /\ s.val = Extra
             THEN <<s>> \o InOrder(files[s.val]) ELSE <<s>>

Apply(settings) ==
    LET sorted == InOrder(settings)
        all == FoldLeft(LAMBDA done, s : done \o Opened(s), <<>>, sorted)
        bad == {i \in DOMAIN all : ~Known(all[i])}
    IN  IF bad = {} THEN /\ opts' = FoldLeft(Assign, opts, all)
                         /\ source' = source + 1 /\ UNCHANGED result
        ELSE LET first == CHOOSE i \in bad : \A j \in bad : i <= j
             IN  /\ result' = IF all[first].val = NoVal /\ all[first].name \in ShowFlags
                              THEN "show" ELSE "usage"
                 /\ UNCHANGED <<opts, source>>

-----------------------------------------------------------------------------
(* The command line that says a sequence of settings, each in a form of its own *)
Written(settings) ==
    FlattenSeq([i \in DOMAIN settings |->
        LET s == settings[i]
        IN  CASE s.val = NoVal -> <<[is |-> "name", name |-> s.name]>>
              [] s.form = "next" -> <<[is |-> "name", name |-> s.name], Word(s.val)>>
              [] OTHER -> <<[is |-> s.form, name |-> s.name, val |-> s.val]>>])

(* ParseConfig() for the library's files and for the program's; ParseArgs() *)
ParseConfig ==
    /\ result = "running" /\ source < Len(Files)
    /\ Apply(files[Files[source + 1]])
    /\ UNCHANGED <<program, files, line, env, action, input>>

Cli == program = "cli"

ParseArgs ==
    LET parsed == Parse(Written(line) \o IF Cli THEN <<[is |-> "stop"]>> ELSE <<>>)
    IN  /\ result = "running" /\ source = Len(Files)
        /\ IF parsed.ok THEN Apply(parsed.settings)
           ELSE result' = "usage" /\ UNCHANGED <<opts, source>>
        /\ UNCHANGED <<program, files, line, env, action, input>>

Has(field) == field \in DOMAIN opts

Validate ==
    /\ result = "running" /\ source = Len(Files) + 1
    /\ source' = source + 1
    /\ result' = IF \/ Cli /\ ~Has("mApiPath")
                    \/ program = "fuse" /\ ~(Has("mApiType") /\ Has("mMountPath")
                                             /\ (Has("mUsername") \/ Has("sessionid")))
                 THEN "usage" ELSE IF Cli THEN "running" ELSE "done"
    /\ UNCHANGED <<program, files, line, env, action, opts, input>>

-----------------------------------------------------------------------------
(* andromeda-cli: CommandLine's ProcessArgList().  The last character of "--name" says where
   the value is: in a file (@), at the prompt (!), it is a file (%) or stdin (-), or it
   follows; "--name=value" has it in itself. *)
Arg(p) ==
    LET key == [is |-> "key", name |-> p.name, special |-> p.special, val |-> NoVal]
        words == SelectSeq(<<p.val, p.as>>, LAMBDA w : w # NoVal)
    IN  IF p.form = "eq" THEN <<[key EXCEPT !.val = p.val]>>
        ELSE <<key>> \o [i \in DOMAIN words |-> Word(words[i])]

(* getNextValue(): the value after argument i, and the argument it is at *)
NextValue(args, i) ==
    IF args[i].is = "key" /\ args[i].val # NoVal THEN [val |-> args[i].val, at |-> i]
    ELSE IF i < Len(args) /\ args[i + 1].is = "word" THEN [val |-> args[i + 1].val, at |-> i + 1]
    ELSE [val |-> NoVal, at |-> i]

(* what each argument asks for, or Bad; files that can be read are in OpenFiles *)
OpenFiles == {"f"}
Bad == [name |-> "bad", special |-> "bad", val |-> NoVal]

Asked(args) ==
    LET from[i \in 1 .. Len(args) + 1] ==
            IF i > Len(args) THEN <<>>
            ELSE IF args[i].is = "word" THEN <<Bad>>
            ELSE LET v == NextValue(args, i)
                     as == NextValue(args, v.at)     \* of a file, after its path
                     ask == [name |-> args[i].name, special |-> args[i].special, val |-> v.val]
                 IN  CASE ask.special = "!" -> <<[ask EXCEPT !.val = "typed"]>> \o from[i + 1]
                       [] ask.special \in {"@", "%"} /\ v.val \notin OpenFiles -> <<Bad>>
                       [] ask.special = "%" /\ v.val \in OpenFiles ->
                            <<[ask EXCEPT !.val = <<@, as.val>>]>> \o from[as.at + 1]
                       [] OTHER -> <<ask>> \o from[v.at + 1]
    IN  from[1]

Secret(name) == name = "password"
Put(f, k, v) == [x \in DOMAIN f \cup {k} |-> IF x = k THEN v ELSE f[x]]
PutNew(f, k, v) == IF k \in DOMAIN f THEN f ELSE Put(f, k, v)

Take(isPriv, into, ask) ==
    CASE ask.special \in {"@", "!"} -> [into EXCEPT !.dataParams = Put(@, ask.name, ask.val)]
      [] ask.special \in {"%", "-"} -> [into EXCEPT !.inStreams = PutNew(@, ask.name, ask.val)]
      [] ask.special = "" /\ isPriv -> [into EXCEPT !.dataParams = Put(@, ask.name, ask.val)]
      [] ask.special = "" /\ ~isPriv -> [into EXCEPT !.plainParams = Put(@, ask.name, ask.val)]

Refused(ask) == ask.special = "" /\ Secret(ask.name) /\ "allow-unsafe-url" \notin DOMAIN opts

(* CommandLine(): the environment, then the arguments *)
CommandLine ==
    LET asked == Asked(FlattenSeq([i \in DOMAIN action |-> Arg(action[i])]))
        fromEnv == FoldLeft(LAMBDA into, p : Take(TRUE, into, [name |-> p.name, special |-> "", val |-> p.val]),
                            [plainParams |-> <<>>, dataParams |-> <<>>, inStreams |-> <<>>], env)
        all == FoldLeft(LAMBDA into, ask : Take(FALSE, into, ask), fromEnv, asked)
    IN  /\ Cli /\ result = "running" /\ source = Len(Files) + 2
        /\ IF \/ \E i \in DOMAIN asked : asked[i] = Bad
              \/ \E i \in DOMAIN asked : Refused(asked[i])
              \/ "stream-out" \in DOMAIN opts /\ all.inStreams # <<>>
           THEN result' = "usage" /\ UNCHANGED input
           ELSE result' = "done" /\ input' = all
        /\ UNCHANGED <<program, files, line, env, action, source, opts>>

ArgInit ==
    /\ \E i \in Inputs : /\ program = i.program /\ files = i.files /\ line = i.line
                        /\ env = i.env /\ action = i.action
    /\ source = 0 /\ opts = <<>> /\ input = <<>> /\ result = "running"

ArgNext == ParseConfig \/ ParseArgs \/ Validate \/ CommandLine

-----------------------------------------------------------------------------
(* what a list of settings says of a member: options before flags, then the name that
   sorts last, then the last *)
Givers(settings, f) ==
    {i \in DOMAIN settings : \E p \in Meaning(settings[i]) : p[1] = f}
Weight(settings, i) ==
    <<IF settings[i].val = NoVal THEN 0 ELSE Rank(settings[i].name), i>>
Heavier(a, b) == a[1] > b[1] \/ (a[1] = b[1] /\ a[2] >= b[2])
Strongest(settings, f) ==
    CHOOSE i \in Givers(settings, f) :
        \A j \in Givers(settings, f) : Heavier(Weight(settings, i), Weight(settings, j))
Says(settings, f) == (CHOOSE p \in Meaning(settings[Strongest(settings, f)]) : p[1] = f)[2]

(* a file that the command line names comes between the options before and after "config" *)
LineSays(f) ==
    LET opens == {i \in DOMAIN line : line[i].name \in {"c", "config"}}
    IN  IF \E i \in opens : /\ Givers(files[Extra], f) # {}
                            /\ Givers(line, f) = {} \/
                               Heavier(Weight(line, i), Weight(line, Strongest(line, f)))
        THEN Says(files[Extra], f)
        ELSE IF Givers(line, f) # {} THEN Says(line, f) ELSE NoVal

(* A program runs with what the command line says, or else its own file, or else the
   library's, and a name that is repeated takes its last value, whatever form it is written
   in; andromeda-cli sends what its arguments say, in the place they say, and no password
   in the URL (ParseArgs, ParseFile, ParseConfig, ProcessArgList). *)
ArgsAreMeant ==
    result = "done" =>
        /\ \A f \in DOMAIN opts \cup UNION {{p[1] : p \in Meaning(line[i])} : i \in DOMAIN line} :
             LET inFiles == {i \in DOMAIN Files : Givers(files[Files[i]], f) # {}}
             IN  opts[f] = IF LineSays(f) # NoVal THEN LineSays(f)
                           ELSE Says(files[Files[CHOOSE i \in inFiles : \A j \in inFiles : j <= i]], f)
        /\ Cli => /\ \A k \in DOMAIN input.plainParams :
                        /\ Secret(k) => "allow-unsafe-url" \in DOMAIN opts
                        /\ \E i \in DOMAIN action : /\ action[i].name = k /\ action[i].special = ""
                                                    /\ action[i].val = input.plainParams[k]
                  /\ \A k \in DOMAIN input.dataParams :
                        \/ \E i \in DOMAIN env : env[i].name = k
                        \/ \E i \in DOMAIN action : action[i].name = k /\ action[i].special \in {"@", "!"}
                  /\ \A i \in DOMAIN action :
                        action[i].name \in DOMAIN (CASE action[i].special = "" -> input.plainParams
                                                     [] action[i].special \in {"@", "!"} -> input.dataParams
                                                     [] action[i].special \in {"%", "-"} -> input.inStreams)
=============================================================================
