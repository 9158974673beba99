----------------------------- MODULE ChunkUtils -----------------------------
(***************************************************************************)
(* _ChunkUtils of src/sglang/srt/eplb/expert_location_updater.py: n        *)
(* elements are dealt out to k chunks in contiguous slices, the first      *)
(* n % k of which have one element more.  A receiver asks for the chunk of *)
(* an element, a sender for the elements of a chunk.                       *)
(***************************************************************************)
EXTENDS Integers, FiniteSets

\* _chunk_index_from_element_index
ChunkIndex(n, k, e) ==
  LET short == n \div k
      long  == n % k
      split == long * (short + 1)
  IN IF e < split THEN e \div (short + 1) ELSE long + (e - split) \div short

\* _element_slice_from_chunk_index: c * short + min(c, long), and its length.
SliceStart(n, k, c) == c * (n \div k) + (IF c < n % k THEN c ELSE n % k)
SliceEnd(n, k, c)   == SliceStart(n, k, c) + n \div k + (IF c < n % k THEN 1 ELSE 0)
-----------------------------------------------------------------------------
\* The lists of ranks that _deduplicate_ordered returns are sorted: they are
\* kept as sets, and index() is the number of lower members.
IndexIn(S, x) == Cardinality({y \in S : y < x})

\* chunk_value_from_element_value
ChunkValue(chunks, elements, x) ==
  CHOOSE c \in chunks :
    IndexIn(chunks, c) = ChunkIndex(Cardinality(elements), Cardinality(chunks), IndexIn(elements, x))

\* element_values_from_chunk_value
ElementValues(chunks, elements, c) ==
  LET n == Cardinality(elements)
      k == Cardinality(chunks)
      i == IndexIn(chunks, c)
  IN {x \in elements : SliceStart(n, k, i) <= IndexIn(elements, x) /\ IndexIn(elements, x) < SliceEnd(n, k, i)}
=============================================================================
