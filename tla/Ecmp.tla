-------------------------------- MODULE Ecmp --------------------------------
(***************************************************************************)
(* ECMP groups (sdk/src/ecmp.c).  A group is a descriptor in L3_ECMP_GROUP *)
(* (base pointer, count and, for at most FastMax members, a copy of the    *)
(* members' egress ids) and a run of entries in L3_ECMP.  Both tables have *)
(* an allocator in memory.  The SDK does not remember where a group's run  *)
(* is: destroying the group gives back its id and leaks the run.           *)
(***************************************************************************)
EXTENDS Asic, Sequences, FiniteSets

CONSTANTS
  EcmpEntries,      \* L3_ECMP_ENTRIES, 4096 in the chip
  EcmpGroupEntries, \* L3_ECMP_GROUP_ENTRIES, 1024 in the chip
  EgressIds,        \* egress ids callers use
  MaxCount,         \* the largest count accepted, 1023 in the chip
  FastMax           \* the largest count with precomputed OIFs, 8 in the chip

\* A descriptor has 12 bits for the base pointer and 10 for the count.
ASSUME EcmpAssumption ==
  /\ EcmpEntries \in 1 .. 2^12 /\ EcmpGroupEntries \in Nat \ {0, 1}
  /\ EgressIds \subseteq Nat
  /\ MaxCount \in 0 .. 2^10 - 1 /\ FastMax \in 0 .. MaxCount

VARIABLES
  ecmp_used,       \* the slots of L3_ECMP taken
  ecmp_group_used, \* the group ids taken
  next_group_id,   \* where the search for a free id starts
  l3_ecmp,         \* hardware: slot -> egress id (14 bits)
  l3_ecmp_group,   \* hardware: group id -> descriptor
  groups,          \* the callers' view: the groups that exist, id -> members
  granted          \* slots handed out by creates that succeeded

ecmpVars ==
  <<ecmp_used, ecmp_group_used, next_group_id, l3_ecmp, l3_ecmp_group, groups, granted>>

EcmpSlots == 0 .. EcmpEntries - 1
GroupIds == 1 .. EcmpGroupEntries - 1
NoGroup  == [base |-> 0, count |-> 0, gt8 |-> FALSE, oif |-> <<>>]

\* The lists of egress ids callers pass; one too many is refused.
Requests == UNION {[1 .. n -> EgressIds] : n \in 0 .. MaxCount + 1}

SmallestOf(S) == CHOOSE x \in S : \A y \in S : x <= y

EcmpTypeOK ==
  /\ ecmp_used \subseteq EcmpSlots
  /\ ecmp_group_used \subseteq GroupIds
  /\ next_group_id \in 1 .. EcmpGroupEntries
  /\ l3_ecmp \in [EcmpSlots -> 0 .. 2^14 - 1]
  /\ DOMAIN l3_ecmp_group = GroupIds
  /\ DOMAIN groups = ecmp_group_used

EcmpInit ==
  /\ ecmp_used = {}
  /\ ecmp_group_used = {}
  /\ next_group_id = 1
  /\ l3_ecmp = [s \in EcmpSlots |-> 0]
  /\ l3_ecmp_group = [g \in GroupIds |-> NoGroup]
  /\ groups = <<>>
  /\ granted = 0

\* The ids alloc_group_id() looks at first; the search wraps once.
AheadIds == {i \in GroupIds \ ecmp_group_used : i >= next_group_id}

alloc_group_id ==
  SmallestOf(IF AheadIds # {} THEN AheadIds ELSE GroupIds \ ecmp_group_used)

Run(base, count) == base .. base + count - 1

\* Where alloc_ecmp_slots() may place a run; it takes the lowest.  Skipping
\* past a taken slot passes over no free run, for every run that starts
\* before that slot and is long enough contains it.
FreeRuns(count) ==
  {b \in EcmpSlots : b + count <= EcmpEntries /\ Run(b, count) \cap ecmp_used = {}}

alloc_ecmp_slots(count) == SmallestOf(FreeRuns(count))

\* The table once the first n members, and a failing one that arrived late,
\* have been written.
MembersWritten(base, ids, n) ==
  [s \in EcmpSlots |-> IF s \in Run(base, n) THEN ids[s - base + 1] % 2^14 ELSE l3_ecmp[s]]

\* Bug: the base pointer is taken modulo the count field's width.
Bug_Descriptor(base, ids) ==
  [base |-> base % 2, count |-> Len(ids), gt8 |-> Len(ids) > FastMax,
   oif |-> IF Len(ids) <= FastMax THEN [i \in DOMAIN ids |-> ids[i] % 2^13] ELSE <<>>]

\* The group entry: 12 bits of base, 10 of count; an OIF has 13 bits.
Descriptor(base, ids) ==
  [base |-> base % 2^12, count |-> Len(ids) % 2^10, gt8 |-> Len(ids) > FastMax,
   oif |-> IF Len(ids) <= FastMax THEN [i \in DOMAIN ids |-> ids[i] % 2^13] ELSE <<>>]

\* -EINVAL, or -ENOSPC with the id given back (next_group_id stays moved).
CreateRefused(ids) ==
  \/ /\ Len(ids) \notin 1 .. MaxCount \/ ecmp_group_used = GroupIds
     /\ UNCHANGED ecmpVars
  \/ /\ Len(ids) \in 1 .. MaxCount /\ ecmp_group_used # GroupIds
     /\ FreeRuns(Len(ids)) = {}
     /\ next_group_id' = alloc_group_id + 1
     /\ UNCHANGED <<ecmp_used, ecmp_group_used, l3_ecmp, l3_ecmp_group, groups, granted>>

\* Write number n fails and ends in o: the first Len(ids) are the members',
\* the last the group's.  The slots and the id are free again.
CreateFailed(ids, n, o) ==
  /\ Len(ids) \in 1 .. MaxCount /\ ecmp_group_used # GroupIds /\ FreeRuns(Len(ids)) # {}
  /\ ~WriteOk(o)
  /\ LET base == alloc_ecmp_slots(Len(ids))
         done == IF o = "lost" \/ n > Len(ids) THEN n - 1 ELSE n
     IN  /\ l3_ecmp' = MembersWritten(base, ids, done)
         /\ l3_ecmp_group' =
              IF n <= Len(ids) THEN l3_ecmp_group
              ELSE sbus_mem_write(l3_ecmp_group, alloc_group_id, Descriptor(base, ids), o)
  /\ next_group_id' = alloc_group_id + 1
  /\ UNCHANGED <<ecmp_used, ecmp_group_used, groups, granted>>

CreateDone(ids) ==
  /\ Len(ids) \in 1 .. MaxCount /\ ecmp_group_used # GroupIds /\ FreeRuns(Len(ids)) # {}
  /\ LET base == alloc_ecmp_slots(Len(ids))
         g    == alloc_group_id
     IN  /\ l3_ecmp' = MembersWritten(base, ids, Len(ids))
         /\ l3_ecmp_group' = [l3_ecmp_group EXCEPT ![g] = Descriptor(base, ids)]
         /\ ecmp_used' = ecmp_used \cup Run(base, Len(ids))
         /\ ecmp_group_used' = ecmp_group_used \cup {g}
         /\ next_group_id' = g + 1
         /\ groups' = [h \in DOMAIN groups \cup {g} |-> IF h = g THEN ids ELSE groups[h]]
  /\ granted' = granted + Len(ids)

l3_ecmp_create(ids) ==
  \/ CreateRefused(ids)
  \/ \E n \in 1 .. Len(ids) + 1, o \in Outcomes : CreateFailed(ids, n, o)
  \/ CreateDone(ids)

\* Any id in range is accepted, one never created or destroyed before too;
\* the result of the write is ignored.
l3_ecmp_destroy(g, o) ==
  /\ l3_ecmp_group' = sbus_mem_write(l3_ecmp_group, g, NoGroup, o)
  /\ ecmp_group_used' = ecmp_group_used \ {g}
  /\ groups' = [h \in DOMAIN groups \ {g} |-> groups[h]]
  /\ UNCHANGED <<ecmp_used, next_group_id, l3_ecmp, granted>>

(***************************************************************************)
(* Properties                                                              *)
(***************************************************************************)

\* Every group that exists reaches the members it was created with: its
\* descriptor points at a run that holds them, whatever other groups were
\* created, refused, failed half way or destroyed since (ecmp.c, create).
\* This is what the reservation of runs in ecmp_used is for.  The copy of
\* the members in the descriptor agrees with the run as long as the egress
\* ids fit in 13 bits (ecmp.c:151 keeps 13, ecmp.c:130 keeps 14).
GroupsIntact ==
  \A g \in DOMAIN groups :
    LET d == l3_ecmp_group[g]
    IN  /\ d.count = Len(groups[g])
        /\ \A i \in DOMAIN groups[g] : l3_ecmp[d.base + i - 1] = groups[g][i] % 2^14
        /\ \A i \in DOMAIN d.oif :
             groups[g][i] < 2^13 => d.oif[i] = l3_ecmp[d.base + i - 1]

\* Only successful creates take slots, all of what they take is kept for
\* good (ecmp.c:169, "member slots are leaked"), and the allocator leaves
\* no hole: the slots in use are the first `granted' ones.  Hence a create
\* fails for lack of slots exactly when EcmpEntries - granted are too few,
\* however many groups have been destroyed.
SlotsLeaked == ecmp_used = 0 .. granted - 1

\* The groups and the allocator of their runs, after any creates that fail half
\* way and any destroys (ecmp.c).
EcmpSound == EcmpTypeOK /\ GroupsIntact /\ SlotsLeaked
=============================================================================
