------------------------------ MODULE Entries -------------------------------
(* Index entries at one path, the winner rule for concurrent entries and the  *)
(* classification of an incoming entry against the local record               *)
(* (crates/engine/src/entry.rs, conflict.rs, batch.rs).                       *)
(*                                                                            *)
(* An entry is its version and its body, the fields the rule looks at.  Every *)
(* path is a file here: its size is a function of its hash and its author's   *)
(* host name a function of its author, so neither tells two bodies apart.     *)
EXTENDS Versions

\* hash 0 is ContentHash::EMPTY, the hash of a tombstone.
NoContent == 0

Body == [stamp : Int, deleted : BOOLEAN, hash : Nat, prev : Nat,
         exec : BOOLEAN, mtime : Int, by : Nat]

Entry == [version : Version, body : Body]

\* A path the index holds nothing for reads as the empty version: every entry
\* dominates it and none is concurrent with it.
Absent ==
    [version |-> Empty,
     body |-> [stamp |-> 0, deleted |-> TRUE, hash |-> NoContent,
               prev |-> NoContent, exec |-> FALSE, mtime |-> 0, by |-> 0]]

Live(e) == ~e.body.deleted

\* The content is what it was before: a touch, or a tombstone peers never saw
\* a file for.
MetadataOnly(b) == b.hash = b.prev

\* Two tombstones are alike, a tombstone and a live entry never are.
SameContent(a, b) ==
    \/ a.deleted /\ b.deleted
    \/ ~a.deleted /\ ~b.deleted /\ a.hash = b.hash /\ a.exec = b.exec

-----------------------------------------------------------------------------
(* The winner rule, in the order the code applies it: the larger stamp, a     *)
(* live entry over a tombstone, a content change over a touch, the later      *)
(* mtime, the larger author.                                                  *)
\* Mutant (of the definition below): the author does not break a tie.
OutrankedWithoutAuthor(a, b) ==
    \/ a.stamp < b.stamp
    \/ /\ a.stamp = b.stamp
       /\ \/ a.deleted /\ ~b.deleted
          \/ /\ a.deleted = b.deleted
             /\ \/ MetadataOnly(a) /\ ~MetadataOnly(b)
                \/ MetadataOnly(a) = MetadataOnly(b) /\ a.mtime < b.mtime

OutrankedBy(a, b) ==
    \/ a.stamp < b.stamp
    \/ /\ a.stamp = b.stamp
       /\ \/ a.deleted /\ ~b.deleted
          \/ /\ a.deleted = b.deleted
             /\ \/ MetadataOnly(a) /\ ~MetadataOnly(b)
                \/ /\ MetadataOnly(a) = MetadataOnly(b)
                   /\ \/ a.mtime < b.mtime
                      \/ a.mtime = b.mtime /\ a.by < b.by

\* None of those tells them apart: the total fallback decides.
Tied(a, b) == ~OutrankedBy(a, b) /\ ~OutrankedBy(b, a)

FallbackBelow(a, b) ==
    \/ a.hash < b.hash
    \/ /\ a.hash = b.hash
       /\ \/ ~a.exec /\ b.exec
          \/ a.exec = b.exec /\ a.prev < b.prev

\* winner(a, b): which side, and whether only the fallback separated them.
Winner(a, b) ==
    [side     |-> IF OutrankedBy(a, b) \/ (Tied(a, b) /\ FallbackBelow(a, b))
                  THEN "second" ELSE "first",
     fallback |-> Tied(a, b)]

\* Mutant: each machine lets the incoming side win.
IncomingBody(a, b) == a

WinnerBody(a, b) == IF Winner(a, b).side = "first" THEN a ELSE b

\* M: the winner's fields under both vectors, no increment.
Merged(a, b) ==
    [version |-> Merge(a.version, b.version), body |-> WinnerBody(a.body, b.body)]

-----------------------------------------------------------------------------
(* classify(index, incoming) against the record r at the path.                *)
Conflicts(e, r) == Concurrent(e.version, r.version)

\* Mutant: a concurrent entry is taken for an old one.
OnlyDominating(e, r) == Dominates(e.version, r.version)

\* The entry makes an item: it is neither equal to nor dominated by r.
Applies(e, r) == Dominates(e.version, r.version) \/ Conflicts(e, r)

Resolved(e, r) == IF Conflicts(e, r) THEN Merged(e, r) ELSE e

\* The fallback decided a merge of two different contents.
DecidedByFallback(e, r) ==
    /\ Conflicts(e, r)
    /\ ~SameContent(e.body, r.body)
    /\ Winner(e.body, r.body).fallback

\* Nothing to do on disk: the version is adopted by the index alone.  A
\* tombstone of a path without a record is a commit, which removes what is there.
IndexOnly(e, r) ==
    \/ /\ Conflicts(e, r)
       /\ ~SameContent(e.body, r.body)
       /\ Winner(e.body, r.body).side = "second"
    \/ /\ SameContent(e.body, r.body)
       /\ r.version # Empty
       /\ \/ ~Live(Resolved(e, r))
          \/ Conflicts(e, r) /\ Resolved(e, r).body.mtime = r.body.mtime

=============================================================================
