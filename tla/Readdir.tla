------------------------------ MODULE Readdir -------------------------------
(***************************************************************************)
(* One scan of a directory by the kernel, page by page (fs.rs, readdir).   *)
(* Every call lists the directory anew and skips as many entries as the    *)
(* kernel has been given: an entry's offset is its position in the list of *)
(* the moment, so a directory that changes between two pages shifts what   *)
(* is still to come.                                                       *)
(*                                                                         *)
(* children is what Db::list answers, ordered by name: a name that only    *)
(* the other of two servers has, when reads move between standby and       *)
(* primary, comes and goes like a created or removed one.                  *)
(***************************************************************************)
EXTENDS Integers, FiniteSets, FiniteSetsExt

CONSTANTS
  Names,    \* the names of the directory's entries, in the order of SQL
  MaxPage   \* entries that fit into one reply

ASSUME NamesAssumption == Names \subseteq Nat /\ IsFiniteSet(Names)
ASSUME PageAssumption == MaxPage \in Nat \ {0}

VARIABLES
  children,   \* the names in the directory
  scanning,   \* a scan is under way
  offset,     \* where the kernel goes on
  got,        \* how often the scan has returned a name (history)
  throughout, \* names there since the scan began (history)
  inserted, removed   \* changes since the scan began (history)

dirVars == <<children, scanning, offset, got, throughout, inserted, removed>>

(* "." and ".." come first.                                                *)
Entries == Cardinality(children) + 2

(* The place of a name in the list.                                        *)
PlaceOf(n) == 2 + Cardinality({m \in children : m < n})

DirTypeOK ==
  /\ children \subseteq Names /\ throughout \subseteq Names
  /\ scanning \in BOOLEAN
  /\ offset \in 0..(Cardinality(Names) + 2)
  /\ got \in [Names -> Nat]
  /\ inserted \in Nat /\ removed \in Nat

NoScan ==
  /\ scanning' = FALSE /\ offset' = 0
  /\ got' = [n \in Names |-> 0]
  /\ throughout' = {} /\ inserted' = 0 /\ removed' = 0

DirInit ==
  /\ children \in SUBSET Names
  /\ scanning = FALSE /\ offset = 0
  /\ got = [n \in Names |-> 0]
  /\ throughout = {} /\ inserted = 0 /\ removed = 0

(* A new scan: there is no opendir, it starts at offset 0.                 *)
Rewind ==
  /\ ~scanning
  /\ scanning' = TRUE
  /\ throughout' = children
  /\ UNCHANGED <<children, offset, got, inserted, removed>>

(* The entries from offset up to before end fit; each carries the offset   *)
(* after itself, and the kernel goes on at next.                           *)
Page(end, next) ==
  /\ got' = [n \in Names |->
               IF n \in children /\ PlaceOf(n) \in offset..(end - 1)
                 THEN got[n] + 1 ELSE got[n]]
  /\ offset' = next
  /\ UNCHANGED <<children, scanning, throughout, inserted, removed>>

Ends == {Min({offset + size, Entries}) : size \in 1..MaxPage}

readdirOffsetOfLast ==
  /\ scanning
  /\ \/ /\ offset < Entries
        /\ \E end \in Ends : Page(end, end - 1)
     \/ /\ offset >= Entries
        /\ NoScan /\ UNCHANGED children

readdirOffsetPastNext ==
  /\ scanning
  /\ \/ /\ offset < Entries
        /\ \E end \in Ends : Page(end, end + 1)
     \/ /\ offset >= Entries
        /\ NoScan /\ UNCHANGED children

(* A page, or a reply without entries, which ends the scan.                *)
readdir ==
  /\ scanning
  /\ \/ /\ offset < Entries
        /\ \E end \in Ends : Page(end, end)
     \/ /\ offset >= Entries
        /\ NoScan /\ UNCHANGED children

(* A change counts for the scan it falls into.                             *)
Counted(n) == IF scanning THEN n + 1 ELSE n

(* A create, mkdir or rename into the directory.                           *)
Insert ==
  \E n \in Names \ children :
    /\ children' = children \union {n}
    /\ inserted' = Counted(inserted)
    /\ UNCHANGED <<scanning, offset, got, throughout, removed>>

(* An unlink, rmdir or rename out of the directory.                        *)
Delete ==
  \E n \in children :
    /\ children' = children \ {n}
    /\ throughout' = throughout \ {n}
    /\ removed' = Counted(removed)
    /\ UNCHANGED <<scanning, offset, got, inserted>>

Missed == {n \in throughout : got[n] = 0 /\ PlaceOf(n) < offset}

(* A scan leaves out a name that was in the directory all the time only    *)
(* for a removal, at most one for each; without removals it misses none    *)
(* (readdir's skip(offset) over a fresh list).  A scan that ends has an    *)
(* offset behind every name.                                               *)
ScanComplete == Cardinality(Missed) <= removed

(* The second, third, ... time that a scan has returned a name.            *)
Repeats == UNION {{n} \X (2..got[n]) : n \in Names}

(* A scan returns names again only for insertions, at most one for each    *)
(* (readdir's skip(offset) over a fresh list).                             *)
RepeatsBounded == Cardinality(Repeats) <= inserted
=============================================================================
