----------------------------- MODULE DurableLog -----------------------------
(***************************************************************************)
(* What the file log promises: a log is an anchor (the compacted prefix)   *)
(* and a chain of entries that extends it, and after a crash it is one of  *)
(* the contents it could fall back to.  A chain stands for the hash chain: *)
(* two logs with equal chains hold the same entries.                       *)
(***************************************************************************)
EXTENDS Naturals, Sequences, SequencesExt

CONSTANT Entries   \* what an entry may be

VARIABLES content, fallback

EmptyLog == [anchor |-> <<>>, chain |-> <<>>]

Init == content = EmptyLog /\ fallback = {EmptyLog}

\* New entries may be lost one by one from the end until they are synced.
Extend ==
    /\ content'.chain \in Seq(Entries)
    /\ IsStrictPrefix(content.chain, content'.chain)
    /\ content'.anchor = content.anchor
    /\ fallback' = fallback \cup {[content EXCEPT !.chain = SubSeq(content'.chain, 1, i)] :
                                    i \in Len(content.chain) .. Len(content'.chain)}

\* A suffix is cut, a prefix is compacted or the anchor of an empty log is
\* installed, as a whole or not at all.
Reshape ==
    /\ \/ /\ content'.anchor = content.anchor
          /\ IsPrefix(content.anchor, content'.chain)
          /\ IsPrefix(content'.chain, content.chain)
       \/ /\ content'.chain = content.chain
          /\ IsPrefix(content.anchor, content'.anchor)
          /\ IsPrefix(content'.anchor, content.chain)
       \/ /\ content = EmptyLog
          /\ content'.chain \in Seq(Entries) /\ content'.anchor = content'.chain
    /\ fallback' = fallback \cup {content'}

\* A sync can only remove what a crash may fall back to.
Harden ==
    /\ UNCHANGED content
    /\ content \in fallback' /\ fallback' \subseteq fallback

Crash == content' \in fallback /\ fallback' = {content'}

Next == Harden \/ Extend \/ Reshape \/ Crash

Spec == Init /\ [][Next]_<<content, fallback>>
=============================================================================
