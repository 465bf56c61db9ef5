--------------------------- MODULE LegacyCommand ---------------------------
(* The command line's translation of what is typed (cli.py,                  *)
(* normalize_legacy_args, and commandcleanup360.py that wraps it): the flags *)
(* of version 2 become subcommands, then removed and alias commands their    *)
(* canonical ones, before argparse sees the tokens.  The interactive prompt  *)
(* and a single command line go the same way.                                *)
(*                                                                           *)
(* What a user means is a line: options of the program, a verb (a command or *)
(* a flag of version 2) and the verb's arguments.  The program only has its  *)
(* tokens.  Options are spelled out: neither a long option cut short, which  *)
(* argparse takes for the option and _command_index for a flag without a     *)
(* value, nor the token -- is modelled.                                      *)
EXTENDS Integers, SequencesExt

CONSTANTS
    Known,         \* known_commands
    LegacyOf,      \* mappings: flag of version 2 -> command
    CanonicalOf,   \* _CANONICAL: command -> tokens
    Commands,      \* the subcommands argparse knows
    ValueOptions,  \* options of the program that take a value
    Flags,         \* those that take none, or have it after a "="
    Words,         \* values of options and arguments of verbs
    MaxOptions, MaxArguments   \* bounds of a line

\* Options, verbs and flags of version 2 are apart, and what a flag or an alias stands for
\* is a command.  No value or argument is such a flag: the one option of a subcommand that
\* is, install's --replace, stands beside a command's name, so its line is left alone.
CommandAssumption ==
    /\ \A flag \in DOMAIN LegacyOf : LegacyOf[flag] \in Known \cap (Commands \cup DOMAIN CanonicalOf)
    /\ \A alias \in DOMAIN CanonicalOf :
          /\ CanonicalOf[alias] \in Seq(Commands \cup DOMAIN CanonicalOf) /\ CanonicalOf[alias] # <<>>
          /\ CanonicalOf[alias][1] \in Commands
    /\ ValueOptions \cap Flags = {} /\ Commands \cap DOMAIN CanonicalOf = {}
    /\ (ValueOptions \cup Flags) \cap (Known \cup Commands \cup DOMAIN CanonicalOf) = {}
    /\ DOMAIN LegacyOf \cap (ValueOptions \cup Flags \cup Words \cup Commands \cup DOMAIN CanonicalOf) = {}
    /\ {MaxOptions, MaxArguments} \subseteq Nat

VARIABLES line, at, argv, parsed

commandVars == <<line, at, argv, parsed>>

UpTo(S, n) == UNION {[1 .. k -> S] : k \in 0 .. n}
Options == {<<flag>> : flag \in Flags} \cup (ValueOptions \X Words)
Lines == [options : UpTo(Options, MaxOptions),
          verb : Commands \cup DOMAIN CanonicalOf \cup DOMAIN LegacyOf,
          arguments : UpTo(Words, MaxArguments)]

Tokens(l) == FlattenSeq(l.options) \o <<l.verb>> \o l.arguments

Nothing == [options |-> <<>>, verb |-> "none", arguments |-> <<>>]

Init ==
    /\ line = Nothing /\ argv = <<>>
    /\ at = "prompt" /\ parsed = Nothing

-----------------------------------------------------------------------------
(* cli.normalize_legacy_args: any token that is a command's name, wherever   *)
(* it stands, leaves the line alone; else the first flag is replaced.        *)
Least(S) == CHOOSE i \in S : \A j \in S : i <= j

LegacyArgs(tokens) ==
    LET flags == {i \in DOMAIN tokens : tokens[i] \in DOMAIN LegacyOf}
    IN IF flags = {} \/ \E i \in DOMAIN tokens : tokens[i] \in Known
       THEN tokens
       ELSE [tokens EXCEPT ![Least(flags)] = LegacyOf[@]]

\* Faulty: values are not skipped.
FirstWord(tokens) ==
    LET words == {i \in DOMAIN tokens : tokens[i] \notin ValueOptions \cup Flags}
    IN IF words = {} THEN 0 ELSE Least(words)

(* The place of the first token that is neither an option nor the value of   *)
(* one, 0 for None; `alone` are the tokens that take no value.               *)
Scan(tokens, alone) ==
    LET from[i \in 1 .. Len(tokens) + 2] ==
            IF i > Len(tokens) THEN 0
            ELSE IF tokens[i] \in ValueOptions THEN from[i + 2]
            ELSE IF tokens[i] \in alone THEN from[i + 1]
            ELSE i
    IN from[1]

(* commandcleanup360._command_index: whatever begins with a dash is skipped. *)
CommandIndex(tokens) == Scan(tokens, Flags \cup DOMAIN LegacyOf)

CanonicalArgs(tokens) ==
    LET i == CommandIndex(tokens)
    IN IF i = 0 \/ tokens[i] \notin DOMAIN CanonicalOf THEN tokens
       ELSE SubSeq(tokens, 1, i - 1) \o CanonicalOf[tokens[i]]
                \o SubSeq(tokens, i + 1, Len(tokens))

(* argparse: options of the program, a subcommand, what is left for it; an   *)
(* error when the first positional token is no subcommand.                   *)
Parsed(tokens) ==
    LET i == Scan(tokens, Flags)
    IN IF i = 0 \/ tokens[i] \notin Commands THEN Nothing
       ELSE [options |-> SubSeq(tokens, 1, i - 1), verb |-> tokens[i],
             arguments |-> SubSeq(tokens, i + 1, Len(tokens))]

Type(l) ==
    /\ at = "prompt"
    /\ line' = l /\ argv' = Tokens(l)
    /\ at' = "typed" /\ UNCHANGED parsed

Translate ==
    /\ at = "typed"
    /\ argv' = CanonicalArgs(LegacyArgs(argv))
    /\ at' = "translated" /\ UNCHANGED <<line, parsed>>

Parse ==
    /\ at = "translated"
    /\ parsed' = Parsed(argv)
    /\ at' = "parsed" /\ UNCHANGED <<line, argv>>

(* The prompt survives whatever the command does.                            *)
Prompt ==
    /\ at = "parsed"
    /\ line' = Nothing /\ argv' = <<>> /\ parsed' = Nothing
    /\ at' = "prompt"

Next == (\E l \in Lines : Type(l)) \/ Translate \/ Parse \/ Prompt

-----------------------------------------------------------------------------
(* What the line means.                                                      *)
Command(verb) == IF verb \in DOMAIN LegacyOf THEN LegacyOf[verb] ELSE verb
Meant(l) ==
    LET command == Command(l.verb)
        tokens == IF command \in DOMAIN CanonicalOf THEN CanonicalOf[command] ELSE <<command>>
    IN [options |-> FlattenSeq(l.options), verb |-> tokens[1],
        arguments |-> Tail(tokens) \o l.arguments]

(* A flag of version 2 beside a word that is also a command's name.          *)
Ambiguous(l) ==
    /\ l.verb \in DOMAIN LegacyOf
    /\ \E i \in DOMAIN Tokens(l) : Tokens(l)[i] \in Known

TypeOK ==
    /\ line.options \in UpTo(Options, MaxOptions)
    /\ line.verb \in {"none"} \cup Commands \cup DOMAIN CanonicalOf \cup DOMAIN LegacyOf
    /\ line.arguments \in UpTo(Words, MaxArguments)
    /\ parsed.verb \in {"none"} \cup Commands
    /\ at \in {"prompt", "typed", "translated", "parsed"}

(* Every line runs the canonical command of its verb, with its options and   *)
(* arguments as they were typed, even where the value of an option or an     *)
(* argument is the name of a command or an alias; translating a line twice   *)
(* changes nothing more.  A flag of version 2 on a line with such a word is  *)
(* the exception (normalize_legacy_args).                                    *)
RunsWhatWasTyped ==
    ~Ambiguous(line) =>
        /\ at = "parsed" => parsed = Meant(line)
        /\ at \in {"translated", "parsed"} => CanonicalArgs(LegacyArgs(argv)) = argv
=============================================================================
