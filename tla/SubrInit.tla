------------------------------ MODULE SubrInit ------------------------------
(***************************************************************************)
(* Sizing of the fusenode cache in fusefs_subrinit, in C integer          *)
(* arithmetic: nfusenode is a long, the tunable ncsize an int, and        *)
(* nfusenode_max a ulong_t.  A comparison of a long with a ulong_t        *)
(* converts the long to unsigned (C99 6.3.1.8).                           *)
(*                                                                         *)
(* TLC's integers are 32 bits wide, so the widths are constants: LongBits *)
(* for long / ulong_t (64 on the kernel's LP64) and IntBits < LongBits    *)
(* for int.  Which branch a comparison takes depends only on the signs    *)
(* and on the int range fitting in a long, which any such pair keeps.     *)
(***************************************************************************)
EXTENDS Integers, FiniteSetsExt
LOCAL B == INSTANCE Bitwise

CONSTANTS
    LongBits,   \* width of long and ulong_t
    IntBits,    \* width of int
    Tunables,   \* values of the tunable nfusenode (long, 0 unless set)
    NcSizes,    \* values of ncsize (int, the DNLC size)
    MaxAvails,  \* values kmem_maxavail() may return
    NodeSize    \* sizeof (struct fusenode)

ULongMax == 2^LongBits
LongMin  == -(2^(LongBits - 1))
LongMax  == 2^(LongBits - 1) - 1
IntMin   == -(2^(IntBits - 1))
IntMax   == 2^(IntBits - 1) - 1

ASSUME IntBits < LongBits
ASSUME Tunables \subseteq LongMin..LongMax /\ NcSizes \subseteq IntMin..IntMax
ASSUME MaxAvails \subseteq 0..(ULongMax - 1) /\ NodeSize \in Nat \ {0}

\* A long converted to ulong_t, and a ulong_t value converted to long.
ToULong(x) == x % ULongMax
ToLong(u)  == IF u > LongMax THEN u - ULongMax ELSE u

VARIABLES
    nfusenode,  \* long nfusenode
    ncsize,     \* int ncsize (dnlc.h)
    maxavail,   \* what kmem_maxavail() returns at init
    phase,      \* "boot" before fusefs_subrinit, "up" after
    tunable     \* history: the value nfusenode had at boot

vars == <<nfusenode, ncsize, maxavail, phase, tunable>>

\* Line 104 and the boot values of the tunables.
Init ==
    /\ nfusenode \in Tunables
    /\ ncsize \in NcSizes
    /\ maxavail \in MaxAvails
    /\ phase = "boot"
    /\ tunable = nfusenode

\* Lines 1089-1090: (ulong_t)((kmem_maxavail() >> 2) / sizeof (struct fusenode)).
NFuseNodeMax == B!shiftR(maxavail, 2) \div NodeSize

\* Mutant: no fallback when both nfusenode and ncsize are 0.
SubrinitNoZeroCase ==
    LET n0 == IF nfusenode <= 0 THEN ncsize ELSE nfusenode IN
    /\ phase = "boot"
    /\ nfusenode' = IF ToULong(n0) > NFuseNodeMax THEN ToLong(NFuseNodeMax) ELSE n0
    /\ phase' = "up"
    /\ UNCHANGED <<ncsize, maxavail, tunable>>

\* Lines 1087-1095 of fusefs_subrinit: default to ncsize, then clamp to
\* nfusenode_max, the long converted to ulong_t for the comparison.
Subrinit ==
    LET n0 == IF nfusenode <= 0 THEN ncsize ELSE nfusenode IN
    /\ phase = "boot"
    /\ nfusenode' = IF ToULong(n0) > NFuseNodeMax \/ (n0 = 0 /\ ncsize = 0)
                    THEN ToLong(NFuseNodeMax) ELSE n0
    /\ phase' = "up"
    /\ UNCHANGED <<ncsize, maxavail, tunable>>

Next == Subrinit

Spec == Init /\ [][Next]_vars

-----------------------------------------------------------------------------
\* The spec's nodes_target: the tunable if set, else the directory-cache
\* size hint, clamped to (available memory / 4) / sizeof(node); with no
\* positive size at all, the clamp itself.
RefTarget ==
    LET hint == IF tunable > 0 THEN tunable ELSE ncsize
        cap  == (maxavail \div 4) \div NodeSize
    IN IF hint > 0 THEN Min({hint, cap}) ELSE cap

\* After fusefs_subrinit, nfusenode is the spec's target: the hint, capped
\* at nfusenode_max, and the cap itself when there is no positive hint,
\* including a tunable of 0 with ncsize 0, and a negative ncsize, which
\* the unsigned comparison turns into a huge value.
NFuseNodeSized == phase = "up" => nfusenode = RefTarget

=============================================================================
