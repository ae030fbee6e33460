------------------------------ MODULE LockedPool ------------------------------
(***************************************************************************)
(* LockedPool and Arena: memory for secrets in arenas of locked pages.  An *)
(* arena keeps its used chunks in chunks_used and its free chunks in three *)
(* maps that refer to each other: size_to_free_chunk by size, and through  *)
(* iterators into it chunks_free by their begin and chunks_free_end by     *)
(* their end.  An address is the index of an arena and an offset; an entry *)
(* of size_to_free_chunk, and an iterator to it, is a pair <<size, begin>>.*)
(* Every operation holds the mutex of the pool.                            *)
(***************************************************************************)
EXTENDS Integers, Sequences

CONSTANTS
  ARENA_SIZE,
  ARENA_ALIGN,
  Limit,          \* what GetLimit returns, 0 for none
  Request,        \* the sizes asked for
  MaxArenas       \* bound on what AllocateLocked can supply

ASSUME PoolAssumption ==
  /\ ARENA_SIZE \in Nat \ {0} /\ ARENA_ALIGN \in Nat \ {0}
  /\ Limit \in Nat /\ Request \subseteq Nat /\ MaxArenas \in Nat

VARIABLE arenas   \* the sequence of arenas

\* std::unordered_map: insertion with operator[], emplace and erase.
Put(f, k, v)     == [x \in DOMAIN f \cup {k} |-> IF x = k THEN v ELSE f[x]]
Emplace(f, k, v) == IF k \in DOMAIN f THEN f ELSE Put(f, k, v)
Erase(f, k)      == [x \in DOMAIN f \ {k} |-> f[x]]
One(k, v)        == [x \in {k} |-> v]
Nothing          == [x \in {} |-> x]

-----------------------------------------------------------------------------
(* Arena                                                                    *)

\* (x + align - 1) & ~(align - 1)
align_up(x) == x + ((-x) % ARENA_ALIGN)

\* The state of an arena.
ArenaOf(size, used, bySize, free, ends) ==
  [size |-> size, chunks_used |-> used, size_to_free_chunk |-> bySize,
   chunks_free |-> free, chunks_free_end |-> ends]

\* A new arena is one free chunk.
Arena(size) ==
  ArenaOf(size, Nothing, {<<size, 0>>}, One(0, <<size, 0>>), One(size, <<size, 0>>))

\* lower_bound: the smallest free chunks that are large enough.  Among equals the
\* code takes the first that was inserted.
LowerBound(A, size) ==
  {c \in A.size_to_free_chunk :
     /\ size <= c[1]
     /\ \A d \in A.size_to_free_chunk : size <= d[1] => c[1] <= d[1]}

\* The request is taken from the begin of the chunk and the rest stays there.
MutTakenFront(A, c, size) ==
  LET at   == c[2] + c[1] - size
      rest == <<c[1] - size, c[2]>>
      used == Emplace(A.chunks_used, c[2], size)
      ends == Erase(A.chunks_free_end, c[2] + c[1])
  IN  IF c[1] = size
      THEN ArenaOf(A.size, used, A.size_to_free_chunk \ {c}, Erase(A.chunks_free, c[2]), ends)
      ELSE ArenaOf(A.size, used, (A.size_to_free_chunk \cup {rest}) \ {c},
                   Put(A.chunks_free, c[2], rest), Emplace(ends, at, rest))

\* Arena::alloc from the free chunk c: the request gets its upper end.
Taken(A, c, size) ==
  LET at   == c[2] + c[1] - size
      rest == <<c[1] - size, c[2]>>
      used == Emplace(A.chunks_used, at, size)
      ends == Erase(A.chunks_free_end, c[2] + c[1])
  IN  IF c[1] = size
      THEN ArenaOf(A.size, used, A.size_to_free_chunk \ {c}, Erase(A.chunks_free, c[2]), ends)
      ELSE ArenaOf(A.size, used, (A.size_to_free_chunk \cup {rest}) \ {c},
                   Put(A.chunks_free, c[2], rest), Emplace(ends, at, rest))

\* Arena::free merges the freed chunk c with the free one that ends where it
\* begins.  The entry of that one in chunks_free is overwritten at the end.
MergePrev(A, c) ==
  IF c[2] \in DOMAIN A.chunks_free_end
  THEN LET prev == A.chunks_free_end[c[2]]
       IN  <<ArenaOf(A.size, A.chunks_used, A.size_to_free_chunk \ {prev},
                     A.chunks_free, Erase(A.chunks_free_end, c[2])),
             <<c[1] + prev[1], c[2] - prev[1]>>>>
  ELSE <<A, c>>

\* A free chunk after the one that is freed is not looked for.
MutMergeNext(A, c) == <<A, c>>

\* Then with the free one that begins where it ends, whose entry in
\* chunks_free_end is overwritten.
MergeNext(A, c) ==
  IF c[2] + c[1] \in DOMAIN A.chunks_free
  THEN LET next == A.chunks_free[c[2] + c[1]]
       IN  <<ArenaOf(A.size, A.chunks_used, A.size_to_free_chunk \ {next},
                     Erase(A.chunks_free, c[2] + c[1]), A.chunks_free_end),
             <<c[1] + next[1], c[2]>>>>
  ELSE <<A, c>>

\* And enters what has become of it in the three maps.
Entered(A, c) ==
  ArenaOf(A.size, A.chunks_used, A.size_to_free_chunk \cup {c},
          Put(A.chunks_free, c[2], c), Put(A.chunks_free_end, c[2] + c[1], c))

\* The used chunk at ptr is in use no more.
Released(A, ptr) ==
  ArenaOf(A.size, Erase(A.chunks_used, ptr), A.size_to_free_chunk,
          A.chunks_free, A.chunks_free_end)

\* Arena::free of the used chunk at ptr.
Freed(A, ptr) ==
  LET prev == MergePrev(Released(A, ptr), <<A.chunks_used[ptr], ptr>>)
      next == MergeNext(prev[1], prev[2])
  IN  Entered(next[1], next[2])

-----------------------------------------------------------------------------
(* LockedPool                                                               *)

PoolInit == arenas = << >>

\* new_arena: the first one is as small as the limit for locked memory.
NewSize == IF arenas = << >> /\ Limit > 0 /\ Limit < ARENA_SIZE THEN Limit ELSE ARENA_SIZE

Fits(A, size) == \E c \in A.size_to_free_chunk : size <= c[1]

\* The arena A, or A after the allocation.
Served(A, size) ==
  IF Fits(A, size) THEN {Taken(A, c, size) : c \in LowerBound(A, size)} ELSE {A}

\* alloc: the first arena with a chunk that is large enough serves the request,
\* else a new one.
alloc(request) ==
  LET size == align_up(request)
  IN  /\ request # 0 /\ request <= ARENA_SIZE
      /\ \/ \E i \in DOMAIN arenas :
              /\ Fits(arenas[i], size)
              /\ \A j \in DOMAIN arenas : j < i => ~Fits(arenas[j], size)
              /\ \E A \in Served(arenas[i], size) : arenas' = [arenas EXCEPT ![i] = A]
         \/ /\ \A i \in DOMAIN arenas : ~Fits(arenas[i], size)
            /\ Len(arenas) < MaxArenas
            /\ \E A \in Served(Arena(NewSize), size) : arenas' = Append(arenas, A)

\* free: an address that is not in use throws and changes nothing.
free(i, ptr) ==
  /\ i \in DOMAIN arenas /\ ptr \in DOMAIN arenas[i].chunks_used
  /\ arenas' = [arenas EXCEPT ![i] = Freed(@, ptr)]

PoolNext ==
  \/ \E request \in Request : alloc(request)
  \/ \E i \in DOMAIN arenas : \E ptr \in DOMAIN arenas[i].chunks_used : free(i, ptr)

PoolSpec == PoolInit /\ [][PoolNext]_arenas

-----------------------------------------------------------------------------
(* Properties                                                               *)

\* The used chunks, as pairs <<size, begin>> like the free ones.
Used(A) == {<<A.chunks_used[p], p>> : p \in DOMAIN A.chunks_used}

Chunks(A) == A.size_to_free_chunk \cup Used(A)

End(c) == c[1] + c[2]

\* Chunks of some size within the arena.
Within(n, T) == \A c \in T : c \in (Nat \ {0}) \X Nat /\ End(c) <= n

\* Types, and every chunk within its arena.
PoolTypeOK ==
  /\ Len(arenas) \in 0 .. MaxArenas
  /\ \A i \in DOMAIN arenas :
       arenas[i].size \in Nat \ {0} /\ Within(arenas[i].size, Chunks(arenas[i]))

\* The iterators: chunks_free and chunks_free_end hold the chunks of
\* size_to_free_chunk by their begin and by their end, and nothing else.
Agree(A) ==
  /\ \A c \in A.size_to_free_chunk : /\ c[2] \in DOMAIN A.chunks_free
                                     /\ End(c) \in DOMAIN A.chunks_free_end
  /\ \A p \in DOMAIN A.chunks_free :
       A.chunks_free[p] \in A.size_to_free_chunk /\ A.chunks_free[p][2] = p
  /\ \A e \in DOMAIN A.chunks_free_end :
       A.chunks_free_end[e] \in A.size_to_free_chunk /\ End(A.chunks_free_end[e]) = e

MapsAgree == \A i \in DOMAIN arenas : Agree(arenas[i])

\* The chunks do not overlap, and every byte is in one of them.
Tiles(n, T) ==
  /\ \A c, d \in T : c # d => End(c) <= d[2] \/ End(d) <= c[2]
  /\ \A x \in 0 .. n - 1 : \E c \in T : c[2] <= x /\ x < End(c)

Partition(A) == A.size_to_free_chunk \cap Used(A) = {} /\ Tiles(A.size, Chunks(A))

\* alloc never hands out a byte that is in use and free never loses one.
ChunksPartition == \A i \in DOMAIN arenas : Partition(arenas[i])

\* free merges: no free chunk ends where another begins.
Merged(A) == \A c, d \in A.size_to_free_chunk : End(c) # d[2]

Coalesced == \A i \in DOMAIN arenas : Merged(arenas[i])

\* When everything has been freed, in whatever order, the arena is one chunk
\* again: it never falls into pieces for good.
Whole(A) ==
  DOMAIN A.chunks_used = {} => A.size_to_free_chunk = {<<A.size, 0>>}

WholeWhenFree == \A i \in DOMAIN arenas : Whole(arenas[i])

=============================================================================
