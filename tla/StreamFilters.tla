------------------------------ MODULE StreamFilters ------------------------------
(***************************************************************************)
(* How EventReader::read_events selects streams by their identifiers: by a *)
(* literal prefix (StreamPrefix) or by a glob pattern (StreamPattern).     *)
(* The in-memory store compares in the process, PostgreSQL with LIKE and   *)
(* with a regular expression translated from the glob, SQLite with LIKE    *)
(* and GLOB.                                                               *)
(*                                                                         *)
(* An identifier is a sequence of symbols: single characters, and words    *)
(* that stand for longer texts no wildcard for one character matches.      *)
(* Each backend compiles a filter into a sequence of items; an item takes  *)
(* either any run of symbols or one symbol of a set.                       *)
(***************************************************************************)
EXTENDS Integers, Sequences, FiniteSets, SequencesExt

CONSTANTS Characters,  \* the symbols that are single characters
          LetterCases  \* sets of symbols that differ only in letter case

ASSUME CharactersAssumption == {"_", "-", "1", "2", "7", "a", "w", "x", "y", "z"} \subseteq Characters

(***************************************************************************)
(* The syntax of a StreamPattern.                                          *)
(***************************************************************************)
Literal(symbol) == [kind |-> "literal", mark |-> "", members |-> {symbol}]
Asterisk == [kind |-> "*", mark |-> "", members |-> {}]
QuestionMark == [kind |-> "?", mark |-> "", members |-> {}]
Class(mark, members) == [kind |-> "class", mark |-> mark, members |-> members]

AnyRun == [many |-> TRUE, oneOf |-> {}]
OneOf(set) == [many |-> FALSE, oneOf |-> set]

(***************************************************************************)
(* A compiled filter takes a whole name: after each item, the positions in *)
(* the name that the items so far can reach.                               *)
(***************************************************************************)
ReachedBy(item, from, name) ==
  IF item.many THEN {q \in 0..Len(name) : \E p \in from : p <= q}
               ELSE {q \in 1..Len(name) : q - 1 \in from /\ name[q] \in item.oneOf}

TakesWhole(items, name) ==
  LET reached[i \in 0..Len(items)] ==
        IF i = 0 THEN {0} ELSE ReachedBy(items[i], reached[i - 1], name)
  IN Len(name) \in reached[Len(items)]

Item(element, ofClass) ==
  CASE element.kind = "*" -> AnyRun
    [] element.kind = "?" -> OneOf(Characters)
    [] element.kind = "literal" -> OneOf(element.members)
    [] element.kind = "class" -> OneOf(ofClass)

(***************************************************************************)
(* The glob crate: `!` negates a class, `^` is a member like any other.    *)
(***************************************************************************)
GlobItem(element) ==
  Item(element, CASE element.mark = "!" -> Characters \ element.members
                  [] element.mark = "^" -> element.members \cup {"^"}
                  [] OTHER -> element.members)

(***************************************************************************)
(* PostgreSQL: `*` becomes `.*`, `?` becomes `.`, `[!` becomes `[^`, other *)
(* class contents are copied (so a leading `^` negates), every other       *)
(* character is escaped.                                                   *)
(***************************************************************************)
RegexItem(element) ==
  Item(element, IF element.mark = "" THEN element.members
                                     ELSE Characters \ element.members)

GlobToAnchoredRegex(pattern) == [i \in DOMAIN pattern |-> RegexItem(pattern[i])]

(***************************************************************************)
(* SQLite's GLOB: `^` negates a class, `!` is a member like any other.     *)
(***************************************************************************)
SqliteItem(element) ==
  Item(element, CASE element.mark = "^" -> Characters \ element.members
                  [] element.mark = "!" -> element.members \cup {"!"}
                  [] OTHER -> element.members)

(***************************************************************************)
(* LIKE with the prefix and `%`: the prefix is not escaped, so its own `_` *)
(* and `%` are wildcards; SQLite also ignores the case of letters.         *)
(***************************************************************************)
EitherCase(symbol) == {symbol} \cup UNION {s \in LetterCases : symbol \in s}

LikeItem(symbol, ignoreCase) ==
  CASE symbol = "%" -> AnyRun
    [] symbol = "_" -> OneOf(Characters)
    [] OTHER -> OneOf(IF ignoreCase THEN EitherCase(symbol) ELSE {symbol})

Like(prefix, ignoreCase) ==
  [i \in DOMAIN prefix |-> LikeItem(prefix[i], ignoreCase)] \o << AnyRun >>

(***************************************************************************)
(* EventFilter: everything, a prefix, or a pattern.                        *)
(***************************************************************************)
AllStreams == [by |-> "all", text |-> << >>]
PrefixFilter(prefix) == [by |-> "prefix", text |-> prefix]
PatternFilter(pattern) == [by |-> "pattern", text |-> pattern]

StreamPatternMatches(pattern, name) == TakesWhole([i \in DOMAIN pattern |-> GlobItem(pattern[i])], name)

(***************************************************************************)
(* The documented meaning of a filter, which is what the in-memory store   *)
(* evaluates.                                                              *)
(***************************************************************************)
MemorySelects(filter, name) ==
  CASE filter.by = "all" -> TRUE
    [] filter.by = "prefix" -> IsPrefix(filter.text, name)
    [] filter.by = "pattern" -> StreamPatternMatches(filter.text, name)

PostgresSelects(filter, name) ==
  CASE filter.by = "all" -> TRUE
    [] filter.by = "prefix" -> TakesWhole(Like(filter.text, FALSE), name)
    [] filter.by = "pattern" -> TakesWhole(GlobToAnchoredRegex(filter.text), name)

SqliteSelects(filter, name) ==
  CASE filter.by = "all" -> TRUE
    [] filter.by = "prefix" -> TakesWhole(Like(filter.text, TRUE), name)
    [] filter.by = "pattern" -> TakesWhole([i \in DOMAIN filter.text |-> SqliteItem(filter.text[i])], name)
===============================================================================
