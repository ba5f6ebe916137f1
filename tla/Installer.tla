------------------------------ MODULE Installer ------------------------------
(* The start of the GUI on a database: SingleInstance, TableInstaller and InstallTable<T>.
   Programs of several versions are run on one database, one at a time, and may fail or
   be killed between any two queries.  Table "meta" is VersionEntry's, with its version in
   PRAGMA user_version; "session" is SessionStore's, with its version in a row of "meta". *)
EXTENDS Integers, Sequences

CONSTANTS
    MaxVersion,     \* versions of a table: 1 .. MaxVersion
    QueryCount      \* queries of GetTableInstall() and of one GetTableUpgrade()

VARIABLES
    shape,      \* per table: the version it has the columns of, 0 without the table
    left,       \* per table: queries of that version that were not run yet
    version,    \* per table: user_version or the row of the version table, 0 without it
    gui         \* the program that runs: its table versions and where it is

installVars == <<shape, left, version, gui>>

Tables == <<"meta", "session">>
TableSet == {"meta", "session"}
NotRunning == [at |-> "down"]

InstallInit ==
    /\ shape = [t \in TableSet |-> 0] /\ left = [t \in TableSet |-> 0]
    /\ version = [t \in TableSet |-> 0]
    /\ gui = NotRunning

(* main(): the lock file keeps a second program out, which shows the first one's window.
   T::GetTableVersion() of both tables come with the program. *)
StartGui ==
    /\ gui.at = "down"
    /\ \E code \in [TableSet -> 1 .. MaxVersion] :
         gui' = [at |-> "install", code |-> code, table |-> 1, goal |-> 0, next |-> 0]
    /\ UNCHANGED <<shape, left, version>>

Table == Tables[gui.table]
Code == gui.code[Table]

(* getVersion(), or TryLoadByTable() *)
Recorded == version[Table]

(* what is to be done for the table *)
CheckVersion ==
    /\ gui.at = "install"
    /\ LET v == Recorded
       IN  gui' = CASE v = 0 -> [gui EXCEPT !.at = "query", !.goal = Code, !.next = 1]
                    [] v > Code -> [gui EXCEPT !.at = "failed"]      \* TableVersionException
                    [] v = Code -> [gui EXCEPT !.at = "done"]
                    [] OTHER -> [gui EXCEPT !.at = "query", !.goal = v + 1, !.next = 1]
    /\ UNCHANGED <<shape, left, version>>

(* CREATE TABLE needs that there is none, an upgrade's query that it was not run before *)
CanRun ==
    IF gui.next > 1 THEN shape[Table] = gui.goal /\ left[Table] = QueryCount - gui.next + 1
    ELSE shape[Table] = (IF version[Table] = 0 THEN 0 ELSE gui.goal - 1) /\ left[Table] = 0

RunQuery ==
    /\ gui.at = "query" /\ gui.next <= QueryCount
    /\ IF CanRun
       THEN /\ shape' = [shape EXCEPT ![Table] = gui.goal]
            /\ left' = [left EXCEPT ![Table] = QueryCount - gui.next]
            /\ gui' = [gui EXCEPT !.next = @ + 1]
       ELSE gui' = [gui EXCEPT !.at = "failed"] /\ UNCHANGED <<shape, left>>
    /\ UNCHANGED version

(* mutant of SetVersion: the version that the program has is taken for every upgrade *)
SetCodeVersion ==
    /\ gui.at = "query" /\ gui.next = QueryCount + 1
    /\ version' = [version EXCEPT ![Table] = Code]
    /\ gui' = [gui EXCEPT !.at = "install"]
    /\ UNCHANGED <<shape, left>>

(* setVersion(newVer), VersionEntry::Create().Save() or setVersion() and Save(), and the
   next turn of the loop *)
SetVersion ==
    /\ gui.at = "query" /\ gui.next = QueryCount + 1
    /\ version' = [version EXCEPT ![Table] = gui.goal]
    /\ gui' = [gui EXCEPT !.at = "install"]
    /\ UNCHANGED <<shape, left>>

NextTable ==
    /\ gui.at = "done"
    /\ gui' = IF gui.table = Len(Tables) THEN [gui EXCEPT !.at = "ready"]
              ELSE [gui EXCEPT !.at = "install", !.table = @ + 1]
    /\ UNCHANGED <<shape, left, version>>

(* a query fails for another reason, an exception main() catches: the program goes on
   without its accounts *)
QueryFails ==
    /\ gui.at = "query"
    /\ gui' = [gui EXCEPT !.at = "failed"]
    /\ UNCHANGED <<shape, left, version>>

(* the end of the program, orderly or not *)
StopGui ==
    /\ gui.at # "down"
    /\ gui' = NotRunning
    /\ UNCHANGED <<shape, left, version>>

InstallNext ==
    \/ StartGui \/ StopGui
    \/ CheckVersion \/ RunQuery \/ SetVersion \/ NextTable \/ QueryFails

InstallSpec == InstallInit /\ [][InstallNext]_installVars

(* The version that is recorded is never ahead of the table, and the table is ahead by the
   one upgrade that was not finished: a program that has started finds its own version
   recorded and has all of its columns, whichever programs were run and killed before. *)
VersionIsTrue ==
    \A t \in TableSet :
        /\ shape[t] >= version[t]
        /\ shape[t] = version[t] => left[t] = 0
        /\ version[t] > 0 => shape[t] <= version[t] + 1
        /\ gui.at = "ready" => version[t] = gui.code[t]
=============================================================================
