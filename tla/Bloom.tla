------------------------------- MODULE Bloom -------------------------------
(***************************************************************************)
(* The filter of known identifiers in front of /contests/:id and           *)
(* /problems/:id.  The core sets an identifier's bits after it commits the *)
(* row, and every core instance rebuilds the filter when it starts, from   *)
(* what it selected and with one pipeline, which Redis interleaves with    *)
(* the commands of others.  The gateway answers 404 when a bit is 0.  The  *)
(* filters of contests and problems are alike and one of them is modelled. *)
(***************************************************************************)
EXTENDS Naturals, FiniteSets

CONSTANTS
  Ids,          \* what the second segment of a path can be
  Words,        \* the ones that are words of a route, like "slug"
  Exempt,       \* the words the gateway lets through: live, stream, archive
  Offsets,      \* the bits of an identifier
  Instances,    \* core instances
  MaxBoots, MaxLosses

VARIABLES
  rows,     \* identifiers of committed rows
  adds,     \* bits that addToBloomFilter has still to set, per identifier
  bits,     \* the filter in Redis
  boot,     \* the rebuild of each core instance
  boots, losses,
  orphans   \* ghost: identifiers whose bits were lost and not set again since
vars == <<rows, adds, bits, boot, boots, losses, orphans>>

Ready == [at |-> "ready", ids |-> {}]
Bits == UNION {Offsets[i] : i \in Ids}

TypeOK ==
  /\ rows \subseteq Ids \ Words
  /\ adds \in [Ids -> SUBSET Bits]
  /\ bits \subseteq Bits
  /\ boot \in [Instances -> [at : {"ready", "selected", "deleted"}, ids : SUBSET Ids]]
  /\ boots \in 0..MaxBoots /\ losses \in 0..MaxLosses
  /\ orphans \subseteq Ids

Init ==
  /\ rows = {} /\ bits = {} /\ orphans = {} /\ boots = 0 /\ losses = 0
  /\ adds = [i \in Ids |-> {}]
  /\ boot = [n \in Instances |-> Ready]

\* createContest or createProblem: the row, then its bits without waiting.
Create(i) ==
  /\ i \notin rows \cup Words
  /\ rows' = rows \cup {i}
  /\ adds' = [adds EXCEPT ![i] = Offsets[i]]
  /\ UNCHANGED <<bits, boot, boots, losses, orphans>>

SetBit(i, b) ==
  /\ b \in adds[i]
  /\ bits' = bits \cup {b}
  /\ adds' = [adds EXCEPT ![i] = @ \ {b}]
  /\ UNCHANGED <<rows, boot, boots, losses, orphans>>

\* Redis is out of reach, or the instance dies: logged, never tried again.
LoseAdd(i) ==
  /\ losses < MaxLosses /\ losses' = losses + 1
  /\ adds[i] # {}
  /\ adds' = [adds EXCEPT ![i] = {}]
  /\ orphans' = orphans \cup {i}
  /\ UNCHANGED <<rows, bits, boot, boots>>

(* hydrateBloomFilters: select every identifier, delete the filter, set the *)
(* bits of the selected ones.                                               *)
SelectIds(n) ==
  /\ boots < MaxBoots /\ boots' = boots + 1
  /\ boot[n] = Ready
  /\ boot' = [boot EXCEPT ![n] = [at |-> "selected", ids |-> rows]]
  /\ UNCHANGED <<rows, adds, bits, losses, orphans>>

DeleteFilter(n) ==
  /\ boot[n].at = "selected"
  /\ bits' = {}
  /\ boot' = [boot EXCEPT ![n].at = "deleted"]
  /\ orphans' = (orphans \cup rows) \ boot[n].ids
  /\ UNCHANGED <<rows, adds, boots, losses>>
AddSelected(n) ==
  /\ boot[n].at = "deleted"
  /\ IF boot[n].ids = {} THEN boot' = [boot EXCEPT ![n] = Ready] /\ UNCHANGED <<bits, orphans>>
     ELSE \E i \in boot[n].ids :
            /\ bits' = bits \cup Offsets[i]
            /\ boot' = [boot EXCEPT ![n].ids = @ \ {i}]
            /\ orphans' = {o \in orphans : ~(Offsets[o] \subseteq bits')}
  /\ UNCHANGED <<rows, adds, boots, losses>>

\* The connection fails: what the pipeline had still to set is not set.
LosePipeline(n) ==
  /\ losses < MaxLosses /\ losses' = losses + 1
  /\ boot[n].at # "ready"
  /\ boot' = [boot EXCEPT ![n] = Ready]
  /\ orphans' = IF boot[n].at = "deleted" THEN orphans \cup boot[n].ids ELSE orphans
  /\ UNCHANGED <<rows, adds, bits, boots>>

Next ==
  \/ \E i \in Ids : Create(i) \/ LoseAdd(i) \/ \E b \in Bits : SetBit(i, b)
  \/ \E n \in Instances :
       SelectIds(n) \/ DeleteFilter(n) \/ AddSelected(n) \/ LosePipeline(n)

Spec == Init /\ [][Next]_vars
-----------------------------------------------------------------------------
\* bloomFilterMiddleware: 404 for a request whose segment lacks a bit.
Blocked(s) == s \notin Exempt /\ ~(Offsets[s] \subseteq bits)

(* A request for a row that exists is turned away only while its bits are   *)
(* on their way, while some instance is between the delete and the last bit *)
(* of its rebuild, or after one of three events: its add was lost, a        *)
(* rebuild that selected before the row was committed deleted its bits, or  *)
(* a rebuild was cut short.  Nothing else, no interleaving of two           *)
(* rebuilds in particular, makes the gateway deny a row.                    *)
BlockedIsExplained ==
  \A i \in rows : Blocked(i) =>
    adds[i] # {} \/ i \in orphans \/ \E n \in Instances : boot[n].at = "deleted"
=============================================================================
