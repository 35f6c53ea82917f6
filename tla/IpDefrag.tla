------------------------------ MODULE IpDefrag ------------------------------
(***************************************************************************)
(* IpDefragmenter (pcap_decode/ip_reassembly.py).  Fragments are held by   *)
(* key until one of them completes a datagram; a packet that is no         *)
(* fragment, or has no identification, passes through.  The key stands     *)
(* for (src, dst, proto, id), and offsets and lengths count units of the   *)
(* fragment offset.  No fragment ever expires: the timeout is stored and   *)
(* never read.                                                             *)
(***************************************************************************)
EXTENDS Integers, Sequences

NoKey == [pair |-> "none", id |-> -1]  \* a packet whose ip_id is None

VARIABLES
    fragments,  \* key -> fragments in the order they came
    passed      \* the packets returned to the engine, in order

defragVars == <<fragments, passed>>

Fragment(offset, mf, payload) == [offset |-> offset, mf |-> mf, payload |-> payload]

HeldFor(key) == IF key \in DOMAIN fragments THEN fragments[key] ELSE << >>

-----------------------------------------------------------------------------
\* Fault: the fragments are taken in the order they came.
LastByArrival(frags, S) == CHOOSE i \in S : \A j \in S : j <= i

\* The order of a stable sort by offset.
Precedes(frags, i, j) ==
    \/ frags[i].offset < frags[j].offset
    \/ frags[i].offset = frags[j].offset /\ i < j

LastByOffset(frags, S) == CHOOSE i \in S : \A j \in S \ {i} : Precedes(frags, j, i)

\* One round of the loop over the sorted fragments.  A gap or the completing
\* last fragment ends it.
Join(acc, frag) ==
    LET overlap == Len(acc.rebuilt) - frag.offset
        joined == IF overlap < Len(frag.payload)
                  THEN acc.rebuilt \o SubSeq(frag.payload, overlap + 1, Len(frag.payload))
                  ELSE acc.rebuilt
    IN  IF acc.end # "none" THEN acc
        ELSE IF overlap < 0 THEN [acc EXCEPT !.end = "gap"]
        ELSE [rebuilt |-> joined,
              end |-> IF ~frag.mf /\ frag.offset + Len(frag.payload) = Len(joined)
                      THEN "complete" ELSE "none"]

\* What the held fragments amount to: all the sorted ones are joined before
\* the last.
Rebuild(frags) ==
    LET joined[S \in SUBSET DOMAIN frags] ==
            IF S = {} THEN [rebuilt |-> << >>, end |-> "none"]
            ELSE Join(joined[S \ {LastByOffset(frags, S)}], frags[LastByOffset(frags, S)])
    IN  IF \A i \in DOMAIN frags : frags[i].mf THEN [rebuilt |-> << >>, end |-> "none"]
        ELSE joined[DOMAIN frags]

-----------------------------------------------------------------------------
DefragInit == fragments = << >> /\ passed = << >>

Pass(packet) == passed' = Append(passed, packet)

\* A packet: its key, and the fragment it is.
PassThrough(key, frag) ==
    /\ key = NoKey \/ (frag.offset = 0 /\ ~frag.mf)
    /\ Pass([key |-> key, payload |-> frag.payload, rebuilt |-> FALSE])
    /\ UNCHANGED fragments

IsFragment(key, frag) == key # NoKey /\ (frag.offset > 0 \/ frag.mf)

HoldFragment(key, frag) ==
    LET frags == Append(HeldFor(key), frag) IN
    /\ IsFragment(key, frag)
    /\ Rebuild(frags).end # "complete"
    /\ fragments' = [k \in DOMAIN fragments \union {key} |-> IF k = key THEN frags ELSE fragments[k]]
    /\ UNCHANGED passed

\* Fault: the fragments stay after their datagram is complete.
CompleteWithoutDelete(key, frag) ==
    LET frags == Append(HeldFor(key), frag) IN
    /\ IsFragment(key, frag)
    /\ Rebuild(frags).end = "complete"
    /\ fragments' = [k \in DOMAIN fragments \union {key} |-> IF k = key THEN frags ELSE fragments[k]]
    /\ Pass([key |-> key, payload |-> Rebuild(frags).rebuilt, rebuilt |-> TRUE])

CompleteDatagram(key, frag) ==
    LET result == Rebuild(Append(HeldFor(key), frag)) IN
    /\ IsFragment(key, frag)
    /\ result.end = "complete"
    /\ fragments' = [k \in DOMAIN fragments \ {key} |-> fragments[k]]
    /\ Pass([key |-> key, payload |-> result.rebuilt, rebuilt |-> TRUE])

Process(key, frag) ==
    \/ PassThrough(key, frag)
    \/ HoldFragment(key, frag)
    \/ CompleteDatagram(key, frag)
=============================================================================
