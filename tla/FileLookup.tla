----------------------------- MODULE FileLookup ------------------------------
(***************************************************************************)
(* From the url of a request to a file: handle_http_transaction and        *)
(* current_working_directory of server.c, with the resources the handler   *)
(* takes on its way and must give back whichever way it ends.  The         *)
(* responses it builds are Transaction's.                                  *)
(*                                                                         *)
(* A path is the sequence of its names, a name a sequence of characters;   *)
(* the code compares the texts.  Links may lead a url anywhere, so that    *)
(* realpath gives any path.                                                *)
(***************************************************************************)
EXTENDS Naturals, Sequences, SequencesExt

CONSTANTS
  Names,     \* bound: the names of files and directories
  Depth,     \* bound: names in a path
  MaxMoves,  \* bound: times the working directory is renamed
  MaxServed  \* bound: requests

FileLookupAssumption ==
  /\ Names \subseteq Seq(Nat \ {0}) \ {<<>>}
  /\ {Depth, MaxMoves, MaxServed} \subseteq Nat

VARIABLES
  here,            \* the directory the process is in
  moves,           \* times it was renamed
  cwd_initialize,  \* current_working_directory's static variable: nothing cached yet
  cached,          \* the text it keeps in current_directory
  lookup_pc,
  canonical,       \* the path canonicalized_url stands for
  opened,          \* the path that was opened last
  held,            \* what this request has allocated, opened or mapped
  lookups,         \* requests so far
  root             \* history: the directory when it was asked for

lookupVars ==
  <<here, moves, cwd_initialize, cached, lookup_pc, canonical, opened, held, lookups, root>>

Slash == 0
Paths == UNION {[1 .. n -> Names] : n \in 0 .. Depth}
PathText(path) ==
  IF path = <<>> THEN <<Slash>>
  ELSE FlattenSeq([i \in DOMAIN path |-> <<Slash>> \o path[i]])

-----------------------------------------------------------------------------

(* Mutant of WithSlash: the directory as getcwd gives it.                  *)
WithoutSlash(text) == text

(* "ensure this path ends with a '/'"                                      *)
WithSlash(text) == IF text[Len(text)] = Slash THEN text ELSE Append(text, Slash)

(* memcmp of the whole of cwd: a shorter path differs where it ends.       *)
Matches(cwd, text) == IsPrefix(cwd, text)

Goto(label) == lookup_pc' = label /\ UNCHANGED <<here, moves, lookups>>

(* A redirect, or a magic call, ends without looking for a file.           *)
Begin ==
  /\ lookup_pc = "idle" /\ lookups < MaxServed
  /\ held' = {"url"}
  /\ Goto("realpath") \/ Goto("cleanup")
  /\ UNCHANGED <<cwd_initialize, cached, canonical, opened, root>>

Realpath ==
  /\ lookup_pc = "realpath"
  /\ \/ Goto("cleanup") /\ UNCHANGED <<canonical, held>>
     \/ /\ canonical' \in Paths
        /\ held' = held \union {"canonicalized_url"}
        /\ Goto("guard")
  /\ UNCHANGED <<cwd_initialize, cached, opened, root>>

(* Mutant of Guard: the refused request returns at once.                   *)
GuardReturns ==
  /\ lookup_pc = "guard"
  /\ cwd_initialize' = FALSE
  /\ IF cwd_initialize THEN cached' = WithSlash(PathText(here)) /\ root' = here
                   ELSE UNCHANGED <<cached, root>>
  /\ Goto(IF Matches(cached', PathText(canonical)) THEN "open" ELSE "idle")
  /\ UNCHANGED <<canonical, opened, held>>

(* The working directory is asked for on the first use only.               *)
Guard ==
  /\ lookup_pc = "guard"
  /\ cwd_initialize' = FALSE
  /\ IF cwd_initialize THEN cached' = WithSlash(PathText(here)) /\ root' = here
                   ELSE UNCHANGED <<cached, root>>
  /\ Goto(IF Matches(cached', PathText(canonical)) THEN "open" ELSE "cleanup")
  /\ UNCHANGED <<canonical, opened, held>>

OpenFile ==
  /\ lookup_pc = "open"
  /\ \/ Goto("cleanup") /\ UNCHANGED <<opened, held>>
     \/ /\ opened' = canonical
        /\ held' = held \union {"file"}
        /\ Goto("map")
  /\ UNCHANGED <<cwd_initialize, cached, canonical, root>>

(* fstat, the Range header if there is one, mmap, close.                   *)
Map ==
  /\ lookup_pc = "map"
  /\ \E range \in SUBSET {"range_value"} :
       held' = (held \ {"file"}) \union {"content"} \union range
  /\ Goto("copy")
  /\ UNCHANGED <<cwd_initialize, cached, canonical, opened, root>>

Copy ==
  /\ lookup_pc = "copy"
  /\ held' = held \ {"content"}
  /\ Goto("cleanup")
  /\ UNCHANGED <<cwd_initialize, cached, canonical, opened, root>>

Cleanup ==
  /\ lookup_pc = "cleanup"
  /\ held' = held \ {"url", "canonicalized_url", "range_value"}
  /\ lookup_pc' = "idle"
  /\ canonical' = <<>>
  /\ lookups' = lookups + 1
  /\ UNCHANGED <<here, moves, cwd_initialize, cached, opened, root>>

(* Between two requests someone renames the directory the server runs in,  *)
(* or one above it.                                                        *)
Move ==
  /\ lookup_pc = "idle"
  /\ moves < MaxMoves
  /\ here' \in Paths \ {here}
  /\ moves' = moves + 1
  /\ UNCHANGED <<cwd_initialize, cached, lookup_pc, canonical, opened, held, lookups, root>>

LookupInit ==
  /\ here \in Paths /\ moves = 0
  /\ cwd_initialize = TRUE /\ cached = <<>>
  /\ lookup_pc = "idle" /\ canonical = <<>> /\ held = {} /\ lookups = 0
  /\ opened = here /\ root = here   \* nothing yet

LookupNext ==
  Begin \/ Realpath \/ Guard \/ OpenFile \/ Map \/ Copy \/ Cleanup \/ Move

LookupSpec == LookupInit /\ [][LookupNext]_lookupVars

-----------------------------------------------------------------------------
(* Properties                                                              *)

(* "make sure that the url never goes beyond current root": a path is let  *)
(* through only if it lies in the directory the server was in when it      *)
(* asked for it, name by name, although the code compares characters:      *)
(* /foo/barn is not in /foo/bar.  And what lies below that directory is    *)
(* not refused, also when it is / itself.                                  *)
GuardIsExact ==
  [][lookup_pc = "guard" =>
       /\ lookup_pc' = "open" => IsPrefix(root', canonical)
       /\ IsStrictPrefix(root', canonical) => lookup_pc' = "open"]_lookupVars

(* Whichever way a request ends, its strings are freed, its descriptor     *)
(* closed and its mapping removed.                                         *)
NothingHeld == lookup_pc = "idle" => held = {}

-----------------------------------------------------------------------------
(* What the code says and does not keep                                    *)

(* "make sure that the url never goes beyond current root", of the         *)
(* directory the server is in when it opens the file.                      *)
NeverBeyondCurrentRoot ==
  [][lookup_pc = "open" /\ lookup_pc' = "map" => IsPrefix(here, opened')]_lookupVars

=============================================================================
