------------------------------ MODULE Requests -------------------------------
(* How a RunnerInput becomes a request: HTTPRunner puts it into the URL, the headers or the
   body, and remembers where it was redirected to; CLIRunner puts it into arguments, the
   environment and the standard input.  A parameter is named p, a value by the number of
   the call it belongs to, so that one that is left from an earlier call shows. *)
EXTENDS Integers, Sequences, FiniteSets

CONSTANTS
    ParamNames,
    Hosts, NoHost, Paths,   \* places of a server
    OwnParam,               \* the base URL may have a parameter of its own
    MaxCalls,
    RunnerKinds             \* "http" and "cli"

VARIABLES
    runner,     \* its kind, followRedirects, base URL (mProtoHost, mBaseURL), and client
    input,      \* the RunnerInput of the call
    request,    \* what was sent
    calls, state,
    place       \* where the server said it is to be found, once it has

requestVars == <<runner, input, request, calls, state, place>>

Forms == {"read", "write", "filesin", "streamin", "streamout"}
Nothing == [form |-> "none"]

RequestInit ==
    /\ runner \in [kind : RunnerKinds, follow : BOOLEAN, client : Hosts,
                   base : [host : Hosts, path : Paths, own : {{}, {OwnParam}}]]
    /\ runner.client = runner.base.host
    /\ input = Nothing /\ request = Nothing /\ calls = 0 /\ state = "idle"
    /\ place = [host |-> runner.base.host, path |-> runner.base.path]

(* a call of the API *)
NewCall ==
    /\ state = "idle" /\ calls < MaxCalls
    /\ calls' = calls + 1 /\ state' = "send"
    /\ \E form \in Forms, plain, data \in SUBSET ParamNames, files, streams \in 0 .. 2 :
        /\ plain \cap data = {}
        /\ form \in {"filesin", "streamin"} \/ files = 0
        /\ form = "streamin" \/ streams = 0
        /\ input' = [form |-> form, call |-> calls', plain |-> plain, data |-> data,
                     files |-> files, streams |-> streams]
    /\ UNCHANGED <<runner, request, place>>

ValuesOf(names, call) == {<<p, call>> : p \in names}

(* SetupRequest, AddDataParams and AddFileParams: a GET has its data in the headers *)
HttpRequest ==
    LET get == input.form \in {"read", "streamout"}
        data == ValuesOf(input.data, input.call)
    IN  [form |-> input.form, host |-> runner.client, path |-> runner.base.path,
         url |-> runner.base.own \cup ValuesOf(input.plain, input.call),
         headers |-> IF get THEN data ELSE {},
         body |-> IF get THEN {} ELSE data,
         files |-> input.files, streams |-> input.streams]

(* GetArguments, GetEnvironment, and the one file that the standard input can be *)
CliRequest ==
    [form |-> input.form, host |-> runner.client, path |-> runner.base.path,
     url |-> ValuesOf(input.plain, input.call), headers |-> {},
     body |-> ValuesOf(input.data, input.call),
     files |-> input.files, streams |-> input.streams]

TooMany == input.files > 1 \/ input.streams > 1 \/ (input.form = "streamin" /\ input.files > 0)

HttpSend ==
    /\ state = "send" /\ runner.kind = "http"
    /\ state' = "sent" /\ request' = HttpRequest
    /\ UNCHANGED <<runner, input, calls, place>>

(* a process is started, and what is to be its standard input is written *)
CliSend ==
    /\ state = "send" /\ runner.kind = "cli"
    /\ IF TooMany THEN state' = "MultipleFiles" /\ UNCHANGED request
       ELSE state' = "sent" /\ request' = CliRequest
    /\ UNCHANGED <<runner, input, calls, place>>

(* the client has no host after a relative location *)
ServerUnknown ==
    /\ state = "sent" /\ request.host = NoHost
    /\ state' = "LibraryException"
    /\ UNCHANGED <<runner, input, request, calls, place>>

Respond ==
    /\ state = "sent" /\ request.host # NoHost
    /\ state' \in {"ok"} \cup IF runner.kind = "http" THEN {"EndpointException"} ELSE {}
    /\ UNCHANGED <<runner, input, request, calls, place>>

(* mutant of WithoutParams: the request's parameters become part of the base URL *)
WithParams(params) == params

(* RegisterRedirect and GetRedirectException cut the location off at the "?" *)
WithoutParams(params) == {}

(* httplib repeats the request at the location, which carries the parameters of the URL;
   only the last location of a chain is seen.  A location without a host is taken for one
   with an empty host. *)
RegisterRedirect ==
    /\ state = "sent" /\ runner.kind = "http" /\ request.host # NoHost
    /\ IF ~runner.follow THEN state' = "RedirectException" /\ UNCHANGED <<runner, place>>
       ELSE \E host \in Hosts, path \in Paths, relative \in BOOLEAN :
              LET newHost == IF relative THEN NoHost ELSE host
              IN  /\ relative => host = place.host
                  /\ place' = [host |-> host, path |-> path]
                  /\ runner' = [runner EXCEPT !.client = newHost,
                                    !.base = [host |-> newHost, path |-> path,
                                              own |-> WithoutParams(request.url)]]
                  /\ state' \in {"ok", "EndpointException"}
    /\ UNCHANGED <<input, request, calls>>

CallEnds ==
    /\ state \in {"ok", "MultipleFiles", "EndpointException", "RedirectException",
                  "LibraryException"}
    /\ state' = "idle" /\ request' = Nothing /\ input' = Nothing
    /\ UNCHANGED <<runner, calls, place>>

RequestNext ==
    \/ NewCall \/ HttpSend \/ CliSend \/ ServerUnknown \/ Respond \/ RegisterRedirect
    \/ CallEnds

RequestSpec == RequestInit /\ [][RequestNext]_requestVars

(* The server gets every parameter of this call once and none of an earlier one, none of the
   data in a URL or an argument, and all of its files; and a request that goes anywhere goes
   to the place the server named last (SetupRequest, RegisterRedirect, GetArguments). *)
RequestIsInput ==
    state = "sent" =>
        LET sent == request.url \cup request.headers \cup request.body
            data == ValuesOf(input.data, input.call)
        IN  /\ sent \ {OwnParam} = ValuesOf(input.plain, input.call) \cup data
            /\ request.url \cap data = {}
            /\ request.files = input.files /\ request.streams = input.streams
            /\ request.host = NoHost \/ (request.host = place.host /\ request.path = place.path)
=============================================================================
