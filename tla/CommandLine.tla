----------------------------- MODULE CommandLine -----------------------------
(***************************************************************************)
(* How cli.Main reads its arguments: flags that only ask for information,  *)
(* then one argument after the other, then three positional arguments.     *)
(*                                                                         *)
(* An argument is a string; what the code asks of one is whether it is a   *)
(* flag, whether it begins with two dashes, whether it is a number and     *)
(* which items it lists between commas.                                    *)
(***************************************************************************)
EXTENDS Naturals, Sequences, FiniteSets, Ordering

CONSTANTS
    ArgVectors,   \* the argument lists of a run
    Unknown,      \* arguments with two dashes that name no option
    Numbers,      \* Numbers[a]: the value of an argument that is a number
    Items(_),     \* the items a comma-separated argument lists
    NoArg,        \* no value was given
    NoExit        \* Main has not returned

ASSUME CommandAssumption ==
    /\ NoExit \notin {0, 1, 2, 3}
    /\ \A v \in ArgVectors :
          IsSequence(v) /\ \A i \in DOMAIN v : IsSequence(Items(v[i]))

VARIABLES
    args,         \* the arguments of this run
    at,           \* the next argument to look at
    positionals,  \* the arguments that are no flags
    switches,     \* the flags that were set
    values,       \* the values that flags were given
    phase,        \* what Main does next
    exit          \* the exit code

optionVars == <<positionals, switches, values>>
commandVars == <<args, at, optionVars, phase, exit>>

Switches == {"--verbose", "-v", "--strict", "--color", "--ignore-errors-on-exit",
             "--ignore-violations-on-exit", "--ignore-tests"}
Texts == {"--reportfile", "--suffixes", "--exclude", "--enable", "--only", "--disable"}
Priorities == {"--minimumpriority", "--maximumpriority"}
Valued == Texts \cup Priorities
Information == {"--version", "--help", "-h"}

\* Arguments that begin with two dashes.
Dashed == (Switches \ {"-v"}) \cup Valued \cup (Information \ {"-h"}) \cup Unknown

\* Two spellings of one option.
Canonical(flag) ==
    CASE flag = "-v" -> "--verbose" [] flag = "--only" -> "--enable" [] OTHER -> flag

Given(option) == option \in switches
Value(option) == values[option]
ItemsOf(option) == IF Value(option) = NoArg THEN <<>> ELSE Items(Value(option))

\* The flag at i is followed by a value: any argument without two dashes.
HasValue(i) == i + 1 <= Len(args) /\ args[i + 1] \notin Dashed

Accepted(flag, a) == flag \in Priorities => a \in DOMAIN Numbers

-----------------------------------------------------------------------------
CommandInit ==
    /\ args \in ArgVectors
    /\ at = 1 /\ positionals = <<>> /\ switches = {}
    /\ values = [o \in {Canonical(f) : f \in Valued} |->
                    CASE o = "--minimumpriority" -> 0
                      [] o = "--maximumpriority" -> 1
                      [] OTHER -> NoArg]
    /\ phase = "start" /\ exit = NoExit

\* Mutation: the error is said and the run goes on.
GoOn(code) == phase' = phase /\ exit' = code

\* Main returns: an error, a usage error, or an answer to a question.
Return(code) == phase' = "done" /\ exit' = code

\* --version and --help count wherever they stand, help only as the first.
AsksInformation ==
    (\E i \in DOMAIN args : args[i] \in Information) \/ args[1] = "help"

Start ==
    /\ phase = "start"
    /\ IF args = <<>> THEN Return(1)
       ELSE IF AsksInformation THEN Return(0)
       ELSE phase' = "options" /\ UNCHANGED exit
    /\ UNCHANGED <<args, at, optionVars>>

Reading(a) == phase = "options" /\ at \in DOMAIN args /\ args[at] = a

Switch(a) ==
    /\ Reading(a) /\ a \in Switches
    /\ switches' = switches \cup {Canonical(a)}
    /\ at' = at + 1
    /\ UNCHANGED <<args, positionals, values, phase, exit>>

TakeValue(a) ==
    /\ Reading(a) /\ a \in Valued /\ HasValue(at) /\ Accepted(a, args[at + 1])
    /\ values' = [values EXCEPT ![Canonical(a)] =
                    IF a \in Priorities THEN Numbers[args[at + 1]] ELSE args[at + 1]]
    /\ at' = at + 2
    /\ UNCHANGED <<args, positionals, switches, phase, exit>>

\* A flag without its value or with a bad one, or an unknown option.
RejectOption(a) ==
    /\ Reading(a)
    /\ \/ a \in Valued /\ ~ (HasValue(at) /\ Accepted(a, args[at + 1]))
       \/ a \in Dashed \ (Valued \cup Switches)
    /\ Return(1)
    /\ UNCHANGED <<args, at, optionVars>>

Positional(a) ==
    /\ Reading(a) /\ a \notin Switches \cup Valued \cup Dashed
    /\ positionals' = Append(positionals, a)
    /\ at' = at + 1
    /\ UNCHANGED <<args, switches, values, phase, exit>>

\* Paths, a format and rulesets, of which paths and rulesets are not empty.
ThreePositionals ==
    Len(positionals) = 3 /\ Items(positionals[1]) # <<>> /\ Items(positionals[3]) # <<>>

EndOptions ==
    /\ phase = "options" /\ at > Len(args)
    /\ IF ThreePositionals THEN phase' = "renderer" /\ UNCHANGED exit ELSE Return(1)
    /\ UNCHANGED <<args, at, optionVars>>

Paths == Items(positionals[1])
Rulesets == positionals[3]

\* Text in colour is a format of its own.
Format ==
    IF positionals[2] = "text" /\ Given("--color") THEN "ansi" ELSE positionals[2]

ReadArguments ==
    \/ Start \/ EndOptions
    \/ \E i \in DOMAIN args :
        LET a == args[i] IN Switch(a) \/ TakeValue(a) \/ RejectOption(a) \/ Positional(a)
=============================================================================
