-------------------------- MODULE TransactionCache --------------------------
(***************************************************************************)
(* db/cache.rs: the metadata of transactions in a map, and their bytes in  *)
(* a list that forgets what was used longest ago once it holds too much.   *)
(* Each of the two has a lock.  delete and clear take both, one after the  *)
(* other; everything else takes one, so it can come in between.            *)
(***************************************************************************)
EXTENDS Integers, SequencesExt, FiniteSetsExt

CONSTANTS
  Hashes,     \* transactions
  Sizes,      \* lengths of their bytes
  Limits,     \* bounds on the cache, as it may be given and changed
  FlagSets    \* TxFlags: sets of bits

VARIABLES
  metadata_cache,   \* TxFlags by hash, for those that have an entry
  entries,          \* the list: <<hash, length of its bytes>>, last used last
  total_size, max_size,
  holder,           \* who holds the metadata lock between two steps: a call and its
                    \* hash, as <<"delete", h>>, or <<>>
  recent            \* history: the list as it would be if nothing were evicted

vars == <<metadata_cache, entries, total_size, max_size, holder, recent>>

\* The bytes of a list.
Total(e) ==
  LET sum[i \in 0..Len(e)] == IF i = 0 THEN 0 ELSE sum[i - 1] + e[i][2]
  IN  sum[Len(e)]
saturating_sub(a, b) == IF a > b THEN a - b ELSE 0

\* A list without the first entry that has the hash, and the bytes of that.
Held(e) == {e[i][1] : i \in DOMAIN e}
index_of(e, h) == Min({i \in DOMAIN e : e[i][1] = h})
Drop(e, h) == IF h \in Held(e) THEN RemoveAt(e, index_of(e, h)) ELSE e
SizeOf(e, h) == IF h \in Held(e) THEN e[index_of(e, h)][2] ELSE 0
Touched(h, len) == Append(Drop(recent, h), <<h, len>>)

Init ==
  /\ metadata_cache = <<>> /\ entries = <<>> /\ total_size = 0
  /\ max_size \in Limits /\ holder = <<>> /\ recent = <<>>

-----------------------------------------------------------------------------
(* Metadata *)

Entered(h, flags) ==
  [g \in DOMAIN metadata_cache \cup {h} |-> IF g = h THEN flags ELSE metadata_cache[g]]
add_metadata_Unlocked(h, flags) ==
  /\ metadata_cache' = Entered(h, flags)
  /\ UNCHANGED <<entries, total_size, max_size, holder, recent>>
add_metadata(h, flags) ==
  /\ holder = <<>>
  /\ metadata_cache' = Entered(h, flags)
  /\ UNCHANGED <<entries, total_size, max_size, holder, recent>>

update_flags(h, flags) ==
  /\ holder = <<>> /\ h \in DOMAIN metadata_cache
  /\ metadata_cache' = [metadata_cache EXCEPT ![h] = flags]
  /\ UNCHANGED <<entries, total_size, max_size, holder, recent>>

-----------------------------------------------------------------------------
(* Bytes *)

\* How many entries go, at least `keep` staying: as many as it takes.
Evicted(e, total, limit, keep) ==
  Min({i \in 0..Len(e) : total - Total(SubSeq(e, 1, i)) <= limit \/ Len(e) - i <= keep})
Evict_NoUpdate(e, total, limit, keep) ==
  /\ entries' = SubSeq(e, Evicted(e, total, limit, keep) + 1, Len(e))
  /\ total_size' = total
Evict(e, total, limit, keep) ==
  LET n == Evicted(e, total, limit, keep)
  IN  /\ entries' = SubSeq(e, n + 1, Len(e))
      /\ total_size' = saturating_sub(total, Total(SubSeq(e, 1, n)))

\* LruCache::set: what is added last stays, however large.
add_bytedata(h, len) ==
  /\ Evict(Append(Drop(entries, h), <<h, len>>),
           saturating_sub(total_size, SizeOf(entries, h)) + len, max_size, 1)
  /\ recent' = Touched(h, len)
  /\ UNCHANGED <<metadata_cache, max_size, holder>>

\* LruCache::get
Moved(h) == Append(Drop(entries, h), entries[index_of(entries, h)])
get_bytedata(h) ==
  /\ h \in Held(entries)
  /\ entries' = Moved(h)
  /\ recent' = Touched(h, SizeOf(entries, h))
  /\ UNCHANGED <<metadata_cache, total_size, max_size, holder>>

set_maximum_cache_size(limit) ==
  /\ max_size' = limit
  /\ Evict(entries, total_size, limit, 0)
  /\ UNCHANGED <<metadata_cache, holder, recent>>

-----------------------------------------------------------------------------
(* Both *)

DeleteMetadata(h) ==
  /\ holder = <<>>
  /\ metadata_cache' = [g \in DOMAIN metadata_cache \ {h} |-> metadata_cache[g]]
  /\ holder' = <<"delete", h>>
  /\ UNCHANGED <<entries, total_size, max_size, recent>>

\* LruCache::remove
Delete ==
  /\ holder # <<>> /\ holder[1] = "delete"
  /\ LET h == holder[2] IN
       /\ entries' = Drop(entries, h)
       /\ total_size' = saturating_sub(total_size, SizeOf(entries, h))
       /\ recent' = Drop(recent, h)
  /\ holder' = <<>>
  /\ UNCHANGED <<metadata_cache, max_size>>

ClearMetadata ==
  /\ holder = <<>>
  /\ metadata_cache' = <<>>
  /\ holder' = <<"clear", "all">>
  /\ UNCHANGED <<entries, total_size, max_size, recent>>

Clear ==
  /\ holder # <<>> /\ holder[1] = "clear"
  /\ entries' = <<>> /\ total_size' = 0 /\ recent' = <<>> /\ holder' = <<>>
  /\ UNCHANGED <<metadata_cache, max_size>>

Next ==
  \/ \E h \in Hashes, flags \in FlagSets : add_metadata(h, flags) \/ update_flags(h, flags)
  \/ \E h \in Hashes, len \in Sizes : add_bytedata(h, len)
  \/ \E h \in Hashes : get_bytedata(h) \/ DeleteMetadata(h)
  \/ \E limit \in Limits : set_maximum_cache_size(limit)
  \/ Delete \/ ClearMetadata \/ Clear
Spec == Init /\ [][Next]_vars

-----------------------------------------------------------------------------
TypeOK ==
  /\ DOMAIN metadata_cache \subseteq Hashes
  /\ \A h \in DOMAIN metadata_cache : metadata_cache[h] \in FlagSets
  /\ entries \in Seq(Hashes \X Sizes) /\ total_size \in Nat /\ max_size \in Limits
  /\ recent \in Seq(Hashes \X Sizes)

\* LruCache: the size it goes by is that of what it holds, and more than the
\* limit only for the sake of one transaction.
WithinLimit ==
  /\ total_size = Total(entries)
  /\ total_size > max_size => Len(entries) = 1

\* LruCache: what it holds is what was used last, in that order and with the bytes
\* given last: nothing is evicted before something that was not used for longer.
KeepsTheRecent == IsSuffix(entries, recent)

\* LruCache: an eviction stops as soon as the rest fits: with the last one that
\* went there would be too much.
StopsInTime ==
  LET evicted == (Held(entries) \ Held(entries')) \cap Held(recent')
      last == Max({0} \cup {i \in DOMAIN entries : entries[i][1] \in evicted})
  IN  last > 0 => Total(entries') + entries[last][2] > max_size'

\* delete, clear: what they remove is in neither cache when they return, although
\* they take the two locks one after the other.
LeavesNothing ==
  holder # <<>> /\ holder' = <<>> =>
    LET removed == IF holder[1] = "delete" THEN {holder[2]} ELSE Hashes
    IN  removed \cap (DOMAIN metadata_cache' \cup Held(entries')) = {}

-----------------------------------------------------------------------------
(* What it rests on *)

\* A hash is in the list once.
OnceEach == \A i, j \in DOMAIN recent : recent[i][1] = recent[j][1] => i = j

\* Whoever holds the metadata lock has removed its part there.
HolderInv ==
  \/ holder = <<>>
  \/ holder[1] = "clear" /\ DOMAIN metadata_cache = {}
  \/ holder[1] = "delete" /\ holder[2] \in Hashes \ DOMAIN metadata_cache

IInv == TypeOK /\ OnceEach /\ HolderInv /\ WithinLimit /\ KeepsTheRecent
=============================================================================
