------------------------------- MODULE Commands -------------------------------
(***************************************************************************)
(* The command lines of the server and the client: CmdHandler::Process and *)
(* ParamParser::Parse (Common/), with the parameters of each command       *)
(* (Server/ServerCmdParser.h, Client/ClientCmdParser.h).                   *)
(*                                                                         *)
(* How CmdParser::ParseCmd splits a line into arguments is left out: a line*)
(* is a command and arguments, each with data "a" or "b" (which the        *)
(* parameter takes), "bad" (which it does not) or "none" (nullptr, when    *)
(* there is no '=').  One thread processes line after line; an argument is *)
(* a step.                                                                 *)
(***************************************************************************)
EXTENDS Integers

CONSTANT MaxArgs   \* bound: arguments of a line

ASSUME ArgsAssumption == MaxArgs \in Nat

\* The parameters of the commands.  A text is stored as it is, a choice is
\* compared with the names it knows, a number is converted by stoull or stof.
Kind == [
    allowcon   |-> [p |-> "text", ipv |-> "choice", nt |-> "number", nct |-> "number",
                    nca |-> "number"],
    shutdown   |-> <<>>,
    connect    |-> [ip |-> "text", p |-> "text", ipv6 |-> "choice", t |-> "number"],
    recvdata   |-> [nt |-> "number", nct |-> "number"],
    disconnect |-> <<>>]

Cmds == DOMAIN Kind
Programs == {{"allowcon", "shutdown"}, {"connect", "recvdata", "disconnect"}}
Params(c) == DOMAIN Kind[c]

Required(c) == IF c = "allowcon" THEN {"p"} ELSE IF c = "connect" THEN {"ip", "p"} ELSE {}

Data == {"a", "b", "bad", "none"}

\* What ProcessParam does with the data; conversions of what is no number throw,
\* and comparing nullptr crashes.
Accepts(kind, d) == kind = "text" \/ d \in {"a", "b"}
Rejects(kind, d) == kind = "choice" /\ d = "bad"

\* Mutated form: a choice keeps what it was.
DefaultParams_NotChoice(c, old) ==
    [p \in Params(c) |-> IF Kind[c][p] = "choice" THEN old[p]
                         ELSE IF Kind[c][p] = "text" THEN "none" ELSE "default"]

Default(c, p) == IF Kind[c][p] = "text" THEN "none" ELSE "default"
DefaultParams(c, old) == [p \in Params(c) |-> Default(c, p)]

VARIABLES
    program,   \* the commands of this program: the server's or the client's
    found,     \* per command: the parameters whose found flag is set
    value,     \* per command: the members ProcessParam sets
    cmd,       \* the command being parsed, or the last one
    args,      \* arguments of the line processed so far
    outcome,   \* how the last line ended, or "parsing"
    given,     \* (history) the parameters given in the line, with their data
    early      \* (history) per command: did its last line end at -h or an unknown parameter?

vars == <<program, found, value, cmd, args, outcome, given, early>>

Nothing == <<>>

Init ==
    /\ program \in Programs
    /\ found = [c \in Cmds |-> {}]
    /\ value = [c \in Cmds |-> [p \in Params(c) |-> "unset"]]
    /\ cmd \in program /\ args = 0 /\ outcome = "prompt"
    /\ given = Nothing
    /\ early = [c \in Cmds |-> FALSE]

\* The next line; after one that ParseCmd calls an error the command is parsed
\* all the same, without arguments.
Process(c) ==
    /\ outcome \notin {"parsing", "crashed", "exited"}
    /\ c \in program
    /\ cmd' = c /\ args' = 0 /\ given' = Nothing
    /\ outcome' = "parsing"
    /\ value' = [value EXCEPT ![c] = DefaultParams(c, value[c])]
    /\ UNCHANGED <<program, found, early>>

Exit ==
    /\ outcome \notin {"parsing", "crashed", "exited"}
    /\ outcome' = "exited"
    /\ UNCHANGED <<program, found, value, cmd, args, given, early>>

Argument == outcome = "parsing" /\ args < MaxArgs /\ args' = args + 1 /\ UNCHANGED <<program, cmd>>

\* -h or -?, and a parameter the command does not have: the line ends at once.
Stops ==
    /\ Argument
    /\ outcome' \in {"help", "unknown"}
    /\ early' = [early EXCEPT ![cmd] = TRUE]
    /\ UNCHANGED <<found, value, given>>

Accept(p, d) ==
    /\ Argument /\ Accepts(Kind[cmd][p], d)
    /\ value' = [value EXCEPT ![cmd][p] = d]
    /\ given' = [q \in DOMAIN given \cup {p} |-> IF q = p THEN d ELSE given[q]]
    /\ found' = [found EXCEPT ![cmd] = @ \cup {p}]
    /\ UNCHANGED <<outcome, early>>

\* Mutated form: the flags of the parameters before stay.
Reject_KeepsFlags(p, d) ==
    /\ Argument /\ Rejects(Kind[cmd][p], d)
    /\ outcome' = "invalid"
    /\ early' = [early EXCEPT ![cmd] = FALSE]
    /\ UNCHANGED <<found, value, given>>

\* Data a parameter does not take ends the line and clears the flags.
Reject(p, d) ==
    /\ Argument /\ Rejects(Kind[cmd][p], d)
    /\ found' = [found EXCEPT ![cmd] = {}]
    /\ outcome' = "invalid"
    /\ early' = [early EXCEPT ![cmd] = FALSE]
    /\ UNCHANGED <<value, given>>

Crash(p, d) ==
    /\ Argument /\ ~Accepts(Kind[cmd][p], d) /\ ~Rejects(Kind[cmd][p], d)
    /\ outcome' = "crashed"
    /\ UNCHANGED <<found, value, given, early>>

\* Mutated form: one of the parameters is enough.
Missing_Any(c) == Required(c) # {} /\ Required(c) \cap found[c] = {}

Missing(c) == ~(Required(c) \subseteq found[c])

\* After the last argument the required parameters are looked for, and the flags
\* are cleared.
Check ==
    /\ outcome = "parsing"
    /\ outcome' = IF Missing(cmd) THEN "refused" ELSE "executed"
    /\ found' = [found EXCEPT ![cmd] = {}]
    /\ early' = [early EXCEPT ![cmd] = FALSE]
    /\ UNCHANGED <<program, value, cmd, args, given>>

Next ==
    \/ \E c \in Cmds : Process(c)
    \/ Exit
    \/ Stops
    \/ \E p \in Params(cmd), d \in Data : Accept(p, d) \/ Reject(p, d) \/ Crash(p, d)
    \/ Check

Spec == Init /\ [][Next]_vars

-----------------------------------------------------------------------------
(* Properties *)

\* Every variable has its type; a flag is set only in the middle of a line or
\* after one that ended early.
TypeOK ==
    /\ found \in [Cmds -> SUBSET UNION {Params(c) : c \in Cmds}]
    /\ DOMAIN value = Cmds
    /\ \A c \in Cmds : /\ found[c] \subseteq Params(c)
                       /\ value[c] \in [Params(c) -> Data \cup {"default", "unset"}]
                       /\ found[c] # {} => early[c] \/ c = cmd
    /\ program \in Programs /\ cmd \in program /\ args \in 0 .. MaxArgs
    /\ outcome \in {"prompt", "parsing", "executed", "refused", "help", "unknown",
                    "invalid", "crashed", "exited"}
    /\ DOMAIN given \subseteq Params(cmd)
    /\ early \in [Cmds -> BOOLEAN]

\* A command is executed with the data of its own line, the last where a
\* parameter is given twice, and with defaults for the rest: nothing is left of
\* earlier lines, however they ended.
ValuesAreCurrent ==
    outcome = "executed" =>
        value[cmd] = [p \in Params(cmd) |->
                        IF p \in DOMAIN given THEN given[p] ELSE Default(cmd, p)]

\* A command is refused only when a required parameter is missing in its line,
\* and executed only when none is, unless lines before it ended at -h or at an
\* unknown parameter: their flags are still set then.
RequiredChecked ==
    [][outcome = "parsing" =>
         /\ outcome' = "refused" => ~(Required(cmd) \subseteq DOMAIN given)
         /\ outcome' = "executed" => Required(cmd) \subseteq DOMAIN given \/ early[cmd]]_vars

=============================================================================
