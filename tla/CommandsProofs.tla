---------------------------- MODULE CommandsProofs ----------------------------
(* Theorems about Commands, for lines of any length. *)
EXTENDS Commands, TLAPS

\* The values the line has given so far.
Current(c) ==
    [p \in Params(c) |-> IF p \in DOMAIN given THEN given[p] ELSE Default(c, p)]

Ended == outcome \notin {"parsing", "crashed"}

\* The values are those of the line, its flags are among those that are set, and
\* flags of other lines are left only where a line ended early.
LineInv ==
    /\ outcome \in {"parsing", "executed"} => value[cmd] = Current(cmd)
    /\ outcome = "parsing" =>
         /\ DOMAIN given \subseteq found[cmd]
         /\ found[cmd] \subseteq DOMAIN given \/ early[cmd]
    /\ Ended => \A c \in Cmds : found[c] # {} => early[c]

\* A parameter that is given has its data.
GivenInv == \A p \in DOMAIN given : given[p] \in Data

Inv == TypeOK /\ LineInv /\ GivenInv

-----------------------------------------------------------------------------

LEMMA ProgramsKnown == \A P \in Programs : P \subseteq Cmds
BY DEF Programs, Cmds, Kind

LEMMA CmdKnown ==
    ASSUME TypeOK
    PROVE  cmd \in Cmds
BY ProgramsKnown DEF TypeOK

LEMMA DefaultParamsType ==
    ASSUME NEW c, NEW old
    PROVE  DefaultParams(c, old) \in [Params(c) -> Data \cup {"default", "unset"}]
BY DEF DefaultParams, Default, Data

LEMMA InvInit == Init => Inv
<1> SUFFICES ASSUME Init PROVE Inv
  OBVIOUS
<1>1. DOMAIN given = {}
  BY DEF Init, Nothing
<1>2. cmd \in Cmds
  BY ProgramsKnown DEF Init
<1>3. TypeOK
  BY <1>1, <1>2, ArgsAssumption DEF Init, TypeOK
<1> QED BY <1>1, <1>3 DEF Init, Inv, LineInv, GivenInv, Ended

\* A new line: defaults everywhere, and no flag but those left by early ends.
LEMMA ProcessInv ==
    ASSUME Inv, NEW c \in Cmds, Process(c)
    PROVE  Inv'
<1>1. /\ cmd' = c /\ args' = 0 /\ given' = Nothing /\ outcome' = "parsing"
      /\ value' = [value EXCEPT ![c] = DefaultParams(c, value[c])]
      /\ UNCHANGED <<program, found, early>> /\ c \in program
      /\ outcome \notin {"parsing", "crashed"}
  BY DEF Process
<1>2. DOMAIN given' = {}
  BY <1>1 DEF Nothing
<1>3. \A d \in Cmds : found[d] # {} => early[d]
  BY <1>1 DEF Inv, LineInv, Ended
<1>4. /\ DOMAIN value' = Cmds
      /\ value'[c] = DefaultParams(c, value[c])
      /\ \A d \in Cmds : d # c => value'[d] = value[d]
  BY <1>1 DEF Inv, TypeOK
<1>5. TypeOK'
  <2>1. \A d \in Cmds : value'[d] \in [Params(d) -> Data \cup {"default", "unset"}]
    BY <1>4, DefaultParamsType DEF Inv, TypeOK
  <2> QED BY <1>1, <1>2, <1>3, <1>4, <2>1, ArgsAssumption DEF Inv, TypeOK
<1>6. LineInv'
  <2>1. Current(c)' = DefaultParams(c, value[c])
    BY <1>2 DEF Current, DefaultParams
  <2>2. found'[c] # {} => early'[c]
    BY <1>1, <1>3
  <2> QED BY <1>1, <1>2, <1>4, <2>1, <2>2 DEF LineInv, Ended
<1>7. GivenInv'
  BY <1>2 DEF GivenInv
<1> QED BY <1>5, <1>6, <1>7 DEF Inv

\* What the arguments of a line leave as it is.
LEMMA ArgumentType ==
    ASSUME Inv, Argument
    PROVE  /\ outcome = "parsing" /\ cmd' = cmd /\ program' = program
           /\ cmd \in Cmds /\ args' \in 0 .. MaxArgs
<1>1. args \in 0 .. MaxArgs /\ args < MaxArgs /\ args' = args + 1
  BY DEF Inv, TypeOK, Argument
<1>2. args' \in 0 .. MaxArgs
  BY <1>1, ArgsAssumption
<1> QED BY <1>2, CmdKnown DEF Inv, Argument

LEMMA StopsInv ==
    ASSUME Inv, Stops
    PROVE  Inv'
<1>1. /\ outcome = "parsing" /\ cmd' = cmd /\ program' = program
      /\ cmd \in Cmds /\ args' \in 0 .. MaxArgs
      /\ outcome' \in {"help", "unknown"}
      /\ early' = [early EXCEPT ![cmd] = TRUE]
      /\ UNCHANGED <<found, value, given>>
  BY ArgumentType DEF Stops
<1>2. \A c \in Cmds : found'[c] # {} => early'[c]
  BY <1>1 DEF Inv, TypeOK
<1>3. TypeOK'
  BY <1>1, <1>2 DEF Inv, TypeOK
<1> QED BY <1>1, <1>2, <1>3 DEF Inv, LineInv, GivenInv, Ended

\* Accepted data becomes the value, and the parameter counts as found.
LEMMA AcceptInv ==
    ASSUME Inv, NEW p \in Params(cmd), NEW d \in Data, Accept(p, d)
    PROVE  Inv'
<1>1. /\ outcome = "parsing" /\ cmd' = cmd /\ program' = program
      /\ cmd \in Cmds /\ args' \in 0 .. MaxArgs
      /\ value' = [value EXCEPT ![cmd][p] = d]
      /\ given' = [q \in DOMAIN given \cup {p} |-> IF q = p THEN d ELSE given[q]]
      /\ found' = [found EXCEPT ![cmd] = @ \cup {p}]
      /\ UNCHANGED <<outcome, early>>
  BY ArgumentType DEF Accept
<1>2. /\ DOMAIN value' = Cmds
      /\ value'[cmd] = [value[cmd] EXCEPT ![p] = d]
      /\ \A c \in Cmds : c # cmd => value'[c] = value[c]
  BY <1>1 DEF Inv, TypeOK
<1>3. /\ found'[cmd] = found[cmd] \cup {p}
      /\ \A c \in Cmds : c # cmd => found'[c] = found[c]
  BY <1>1 DEF Inv, TypeOK
<1>4. /\ DOMAIN given' = DOMAIN given \cup {p}
      /\ given'[p] = d
      /\ \A q \in DOMAIN given : q # p => given'[q] = given[q]
  BY <1>1
<1>5. TypeOK'
  <2>1. /\ found' \in [Cmds -> SUBSET UNION {Params(c) : c \in Cmds}]
        /\ \A c \in Cmds : found'[c] \subseteq Params(c)
    BY <1>1, <1>3 DEF Inv, TypeOK
  <2>2. \A c \in Cmds : value'[c] \in [Params(c) -> Data \cup {"default", "unset"}]
    BY <1>1, <1>2 DEF Inv, TypeOK
  <2> QED BY <1>1, <1>2, <1>3, <1>4, <2>1, <2>2 DEF Inv, TypeOK
<1>6. LineInv'
  <2>1. value[cmd] = Current(cmd)
    BY <1>1 DEF Inv, LineInv
  <2>2. value'[cmd] = Current(cmd)'
    BY <1>1, <1>2, <1>4, <2>1 DEF Current
  <2>3. DOMAIN given' \subseteq found'[cmd]
    BY <1>1, <1>3, <1>4 DEF Inv, LineInv
  <2>4. found'[cmd] \subseteq DOMAIN given' \/ early'[cmd]
    BY <1>1, <1>3, <1>4 DEF Inv, LineInv
  <2> QED BY <1>1, <2>2, <2>3, <2>4 DEF LineInv, Ended
<1>7. GivenInv'
  BY <1>1, <1>4 DEF Inv, GivenInv
<1> QED BY <1>5, <1>6, <1>7 DEF Inv

\* The line ends, and no flag of its command is left.
LEMMA ClearedInv ==
    ASSUME Inv, outcome = "parsing", outcome' \in {"invalid", "refused", "executed"},
           found' = [found EXCEPT ![cmd] = {}], early' = [early EXCEPT ![cmd] = FALSE],
           UNCHANGED <<program, value, cmd, given>>, args' \in 0 .. MaxArgs
    PROVE  Inv'
<1>1. cmd \in Cmds
  BY CmdKnown DEF Inv
<1>2. /\ found'[cmd] = {}
      /\ \A c \in Cmds : c # cmd => found'[c] = found[c] /\ early'[c] = early[c]
  BY <1>1 DEF Inv, TypeOK
<1>3. TypeOK'
  <2>1. /\ found' \in [Cmds -> SUBSET UNION {Params(c) : c \in Cmds}]
        /\ early' \in [Cmds -> BOOLEAN]
        /\ \A c \in Cmds : found'[c] \subseteq Params(c)
    BY <1>1, <1>2 DEF Inv, TypeOK
  <2> QED BY <1>2, <2>1 DEF Inv, TypeOK
<1>4. LineInv'
  <2>1. (value[cmd] = Current(cmd))'
    BY DEF Inv, LineInv, Current
  <2>2. \A c \in Cmds : found'[c] # {} => early'[c]
    BY <1>2 DEF Inv, TypeOK
  <2> QED BY <2>1, <2>2 DEF LineInv
<1> QED BY <1>3, <1>4 DEF Inv, GivenInv

LEMMA InvNext == Inv /\ [Next]_vars => Inv'
<1> SUFFICES ASSUME Inv, [Next]_vars PROVE Inv'
  OBVIOUS
<1>1. CASE UNCHANGED vars
  BY <1>1 DEF vars, Inv, TypeOK, LineInv, GivenInv, Ended, Current
<1>2. ASSUME NEW c \in Cmds, Process(c) PROVE Inv'
  BY <1>2, ProcessInv
<1>3. CASE Exit
  BY <1>3 DEF Exit, Inv, TypeOK, LineInv, GivenInv, Ended, Current
<1>4. CASE Stops
  BY <1>4, StopsInv
<1>5. ASSUME NEW p \in Params(cmd), NEW d \in Data, Accept(p, d) PROVE Inv'
  BY <1>5, AcceptInv
<1>6. ASSUME NEW p \in Params(cmd), NEW d \in Data, Reject(p, d) PROVE Inv'
  <2>1. /\ outcome = "parsing" /\ UNCHANGED <<cmd, program, value, given>>
        /\ args' \in 0 .. MaxArgs
    BY <1>6, ArgumentType DEF Reject
  <2> QED BY <1>6, <2>1, ClearedInv DEF Reject
<1>7. ASSUME NEW p \in Params(cmd), NEW d \in Data, Crash(p, d) PROVE Inv'
  <2>1. /\ outcome = "parsing" /\ UNCHANGED <<cmd, program, value, given, found, early>>
        /\ args' \in 0 .. MaxArgs /\ outcome' = "crashed"
    BY <1>7, ArgumentType DEF Crash
  <2> QED BY <2>1 DEF Inv, TypeOK, LineInv, GivenInv, Ended
<1>8. CASE Check
  <2>1. args' \in 0 .. MaxArgs
    BY <1>8 DEF Check, Inv, TypeOK
  <2> QED BY <1>8, <2>1, ClearedInv DEF Check
<1> QED BY <1>1, <1>2, <1>3, <1>4, <1>5, <1>6, <1>7, <1>8 DEF Next

-----------------------------------------------------------------------------

\* Every parameter has data, its default or none, no line has more arguments than
\* the bound, and the line is one of a command of the program that runs.
THEOREM CommandTypes == Spec => []TypeOK
<1>1. Inv => TypeOK
  BY DEF Inv
<1> QED BY <1>1, InvInit, InvNext, PTL DEF Spec

\* The flags and values of the commands keep their types, and a command is
\* executed with the data of its own line, however many lines came before and
\* however they ended.
THEOREM ValuesCorrect == Spec => [](TypeOK /\ ValuesAreCurrent)
<1>1. Inv => TypeOK /\ ValuesAreCurrent
  BY DEF Inv, LineInv, ValuesAreCurrent, Current
<1> QED BY <1>1, InvInit, InvNext, PTL DEF Spec

\* Only a line after one that ended early is executed without its required
\* parameters, and none is refused that has them.
THEOREM RequiredCorrect == Spec => RequiredChecked
<1> DEFINE Checked ==
      outcome = "parsing" =>
        /\ outcome' = "refused" => ~(Required(cmd) \subseteq DOMAIN given)
        /\ outcome' = "executed" => Required(cmd) \subseteq DOMAIN given \/ early[cmd]
<1>1. Inv /\ [Next]_vars => [Checked]_vars
  <2> SUFFICES ASSUME Inv, [Next]_vars, outcome = "parsing",
                      outcome' \in {"refused", "executed"}
               PROVE  Checked
    BY DEF vars
  <2>1. Check
    BY DEF Next, Process, Exit, Stops, Accept, Reject, Crash, vars
  <2>2. /\ DOMAIN given \subseteq found[cmd]
        /\ found[cmd] \subseteq DOMAIN given \/ early[cmd]
    BY DEF Inv, LineInv
  <2> QED BY <2>1, <2>2 DEF Check, Missing
<1> QED BY <1>1, InvInit, InvNext, PTL DEF Spec, RequiredChecked

=============================================================================
