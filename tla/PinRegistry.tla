---------------------------- MODULE PinRegistry ----------------------------
(***************************************************************************)
(* The Pin Registry of bpfcov: how the name the kernel reports for a map  *)
(* is split by strtok (src/cli/cli.c:885-887) and resolved to one of the  *)
(* four pin slots by get_pin_path (src/cli/cli.c:698-722).                *)
(*                                                                         *)
(* A map name is represented by the sequence of the non-empty tokens that *)
(* strtok(name, ".") yields from it, in order.  A token is abstracted to  *)
(* what strncmp(token, kw, strlen(kw)) can tell apart: the stem it starts *)
(* with, and whether more characters follow the stem ("profcx" has stem   *)
(* "profc" and more = TRUE).  Stems are chosen so that none is a proper   *)
(* prefix of a keyword.                                                    *)
(***************************************************************************)
EXTENDS Integers, Sequences

\* NUM_PINNED_MAPS (cli.c:120): the slots of root_args.pin, indexed as in C.
NUM_PINNED_MAPS == 4
PinIdx == 0 .. NUM_PINNED_MAPS - 1

\* get_pin_path returns 0 when no keyword matches (cli.c:721).
NoRole == -1

\* The keyword get_pin_path compares against for each slot (cli.c:700-718).
Keyword == [i \in PinIdx |-> <<"profc", "profd", "profn", "covmap">>[i + 1]]

\* A token of a map name: its stem and whether characters follow it.
Token(stem, more) == [stem |-> stem, more |-> more]

\* strncmp(token, kw, strlen(kw)) == 0 for the abstraction above.
StrncmpMatches(tok, kw) == tok.stem = kw

\* strlen(map_info.name) > 0 (cli.c:878), for names that are not all dots.
HasName(name) == Len(name) > 0

\* The second strtok call returns NULL when the name has a single token
\* (cli.c:886-887).
HasSuffix(name) == Len(name) >= 2

\* The suffix strtok(NULL, ".") returns (cli.c:887).
Suffix(name) == name[2]

\* Mutant: the names branch copied from the data branch (pin[1] for profn).
GetPinPathSwapped(suffix) ==
    IF \E i \in PinIdx : StrncmpMatches(suffix, Keyword[i])
    THEN LET i == CHOOSE j \in PinIdx : StrncmpMatches(suffix, Keyword[j])
         IN  IF i = 2 THEN 1 ELSE i
    ELSE NoRole

\* get_pin_path: the slot whose keyword the suffix starts with, or NoRole.
\* The keywords are pairwise not prefixes of each other, so at most one
\* branch of the if-chain of cli.c:700-719 can match and its order is
\* immaterial.
GetPinPath(suffix) ==
    IF \E i \in PinIdx : StrncmpMatches(suffix, Keyword[i])
    THEN CHOOSE i \in PinIdx : StrncmpMatches(suffix, Keyword[i])
    ELSE NoRole

=============================================================================
