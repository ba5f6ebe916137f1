--------------------------- MODULE BackendSession ----------------------------
(* Logging in and out: BackendImpl's session, and who keeps it.  The command line and FUSE
   programs end a session they made; the GUI stores it and uses it at the next start.
   Sessions are numbered in the order the server makes them.  Every request may fail before
   or after the server has done it. *)
EXTENDS Integers

CONSTANTS
    Contexts,       \* BackendImpl objects, of one or more programs
    MaxSession,     \* bound on the sessions made
    GivenSession    \* a session made by someone else, that a user passes by --sessionid

VARIABLES
    alive,          \* sessions the server knows
    made,
    sessionRows,           \* sessions in the database's session table
    ended,          \* sessions a program has deleted at the server
    stray,          \* sessions no program will end: see the actions that add one
    ctx             \* per context: its program, where it is, and the members

sessionVars == <<alive, made, sessionRows, ended, stray, ctx>>

NoSession == 0
Down == [at |-> "down", program |-> "none", del |-> FALSE, session |-> NoSession]

SessionInit ==
    /\ alive = {GivenSession} /\ made = GivenSession /\ sessionRows = {} /\ ended = {} /\ stray = {}
    /\ ctx = [c \in Contexts |-> Down]

Is(c, label) == ctx[c].at = label
Change(c, new) == ctx' = [ctx EXCEPT ![c] = new]
Moved(c, label) == [ctx[c] EXCEPT !.at = label]

(* BackendImpl's constructor loads the configuration first, which may fail *)
NewBackend(c) ==
    /\ Is(c, "down")
    /\ \E program \in {"gui", "cli"} :
         Change(c, [Moved(c, "new") EXCEPT !.program = program])
    /\ UNCHANGED <<alive, made, sessionRows, ended, stray>>

(* Authenticate(): createsession is refused, as for a wrong password.  AuthInteractive asks
   for a second factor, if it may ask, and tries once more. *)
Refused(c) ==
    /\ Is(c, "new")
    /\ \/ Change(c, Moved(c, "ending"))
       \/ ctx[c].program = "cli" /\ UNCHANGED ctx
    /\ UNCHANGED <<alive, made, sessionRows, ended, stray>>

(* createsession is done; the answer is lost, cannot be read, or is taken over.
   LoadAccountPolicy(), which follows, does nothing in this version. *)
Authenticate(c) ==
    /\ Is(c, "new") /\ made < MaxSession
    /\ made' = made + 1 /\ alive' = alive \cup {made'}
    /\ \/ stray' = stray \cup {made'} /\ Change(c, Moved(c, "ending"))
       \/ stray' = stray \cup {made'} /\ Change(c, [Moved(c, "ending") EXCEPT !.del = TRUE])
       \/ /\ UNCHANGED stray
          /\ Change(c, [Moved(c, "in") EXCEPT !.del = TRUE, !.session = made'])
    /\ UNCHANGED <<sessionRows, ended>>

(* AuthInteractive on a runner that needs no session: the server trusts auth_sudouser *)
AuthSudo(c) ==
    /\ Is(c, "new") /\ ctx[c].program = "cli"
    /\ Change(c, Moved(c, "in"))
    /\ UNCHANGED <<alive, made, sessionRows, ended, stray>>

(* the sessions a program may begin with: TryLoadAccounts() takes those of the database, the
   others the one their user gave *)
Sessions(c) == IF ctx[c].program = "gui" THEN sessionRows ELSE {GivenSession}

(* PreAuthenticate: in the GUI, with a session that no other tab has *)
PreAuthenticate(c) ==
    /\ Is(c, "new")
    /\ \E s \in Sessions(c) :
        /\ ctx[c].program = "gui" => \A d \in Contexts : ctx[d].session # s
        /\ \/ s \in alive /\ Change(c, [Moved(c, "in") EXCEPT !.session = s])
           \/ Change(c, [Moved(c, "ending") EXCEPT !.session = s])
    /\ UNCHANGED <<alive, made, sessionRows, ended, stray>>

(* mutant of Kept: the session is stored and is ended all the same *)
KeptForget(c) == ctx[c]

Kept(c) == [ctx[c] EXCEPT !.del = FALSE]

(* SessionStore's row with this session, and Save(), which fails when the account has a row
   already, or the database does *)
SetSession(c) ==
    \/ sessionRows = {} /\ sessionRows' = {ctx[c].session} /\ UNCHANGED stray
    \/ stray' = stray \cup {ctx[c].session} /\ UNCHANGED sessionRows

(* AddAccount: from BackendImpl::StoreSession() on the session is kept *)
StoreSession(c) ==
    /\ Is(c, "in") /\ ctx[c].program = "gui" /\ ctx[c].session \notin sessionRows /\ ctx[c].del
    /\ Change(c, Kept(c)) /\ SetSession(c)
    /\ UNCHANGED <<alive, made, ended>>

(* RemoveAccount: the row goes, its session stays at the server *)
RemoveAccount(c) ==
    /\ Is(c, "in") /\ ctx[c].program = "gui"
    /\ Change(c, Moved(c, "ending"))
    /\ \/ /\ sessionRows' = sessionRows \ {ctx[c].session}
          /\ stray' = IF ctx[c].session \in sessionRows THEN stray \cup {ctx[c].session} ELSE stray
       \/ UNCHANGED <<sessionRows, stray>>                    \* DatabaseException
    /\ UNCHANGED <<alive, made, ended>>

(* the end of a tab or a program *)
Quit(c) ==
    /\ Is(c, "in")
    /\ Change(c, Moved(c, "ending"))
    /\ UNCHANGED <<alive, made, sessionRows, ended, stray>>

(* ~BackendImpl: CloseSession(), whose exceptions are only logged *)
CloseSession(c) ==
    /\ Is(c, "ending")
    /\ IF ~ctx[c].del THEN UNCHANGED <<alive, ended, stray>>
       ELSE \/ /\ ctx[c].session # NoSession
               /\ alive' = alive \ {ctx[c].session} /\ ended' = ended \cup {ctx[c].session}
               /\ UNCHANGED stray
            \/ stray' = stray \cup ({ctx[c].session} \ {NoSession}) /\ UNCHANGED <<alive, ended>>
    /\ ctx' = [ctx EXCEPT ![c] = Down]
    /\ UNCHANGED <<made, sessionRows>>

(* the process dies *)
Kill(c) ==
    /\ ~Is(c, "down")
    /\ stray' = IF ctx[c].del THEN stray \cup ({ctx[c].session} \ {NoSession}) ELSE stray
    /\ ctx' = [ctx EXCEPT ![c] = Down]
    /\ UNCHANGED <<alive, made, sessionRows, ended>>

(* a session expires, or is removed through another client *)
ServerEnds == \E s \in alive :
    alive' = alive \ {s} /\ UNCHANGED <<made, sessionRows, ended, stray, ctx>>

SessionNext ==
    \/ ServerEnds
    \/ \E c \in Contexts :
        \/ NewBackend(c) \/ Refused(c) \/ Authenticate(c) \/ AuthSudo(c)
        \/ PreAuthenticate(c) \/ StoreSession(c) \/ RemoveAccount(c) \/ Quit(c)
        \/ CloseSession(c) \/ Kill(c)

SessionSpec == SessionInit /\ [][SessionNext]_sessionVars

(* No program ends a session that is stored for the next start or that its user gave it,
   and when no program runs, a session that was made is stored, ended, or lost in one of
   the ways the actions name: an answer or a deletion that failed, a row that could not be
   saved, a removed account, a crash (mDeleteSession). *)
SessionsKept ==
    /\ ended \cap (sessionRows \cup {GivenSession}) = {}
    /\ \A c \in Contexts : ctx[c].del => ctx[c].session \notin sessionRows \cup {GivenSession}
    /\ (\A c \in Contexts : Is(c, "down")) =>
         alive \subseteq sessionRows \cup {GivenSession} \cup stray
=============================================================================
