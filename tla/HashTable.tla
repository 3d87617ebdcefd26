------------------------------ MODULE HashTable ------------------------------
(***************************************************************************)
(* The hash table (lib/hash.cc) and its iterator.  A bucket is a sequence  *)
(* of items: that List is one is shown in LinkedList.                      *)
(***************************************************************************)
EXTENDS Integers, Sequences, FiniteSets

CONSTANTS
  Item,
  getKey,          \* [Item -> key]
  hash,            \* [key -> Nat]
  InitialBuckets, ResizeRatio, IncreaseSizeBy

VARIABLES
  buckets,         \* [0 .. numBuckets - 1 -> sequence of items]
  numItems,
  iter,            \* the iterator: its bucket and its place in it
  visited,         \* the items that the iterator has been at (not in the code)
  result,          \* the key that was last asked for, and what was returned
  abort            \* "no", or who broke an assertion: "caller" or "table"

vars == <<buckets, numItems, iter, visited, result, abort>>

numBuckets == Cardinality(DOMAIN buckets)
Key == {getKey[item] : item \in Item}
InitBuckets(sz) == [b \in 0 .. sz - 1 |-> <<>>]
None == <<"none", "none">>
NoIterator == [bucket |-> -1, at |-> 0]

Init ==
  /\ buckets = InitBuckets(InitialBuckets)
  /\ numItems = 0
  /\ iter = NoIterator
  /\ visited = <<>>
  /\ result = None
  /\ abort = "no"

HashValue(key, size) == hash[key] % size

(* FindInBucket: the item with the key, if there is one. *)
Find(key) == LET b == buckets[HashValue(key, numBuckets)] IN
             {b[k] : k \in {k \in 1 .. Len(b) : getKey[b[k]] = key}}
IsInTable(key) == Find(key) # {}

SanityCheck(table, count) ==
  LET Items(b) == 1 .. Len(table[b])
      Sizes[n \in 0 .. Cardinality(DOMAIN table)] == IF n = 0 THEN 0 ELSE Len(table[n - 1]) + Sizes[n - 1]
  IN  /\ \A b \in DOMAIN table : \A k \in Items(b) : HashValue(getKey[table[b][k]], Cardinality(DOMAIN table)) = b
      /\ Sizes[Cardinality(DOMAIN table)] = count

(* All items, bucket after bucket. *)
Flat(table) ==
  LET From[b \in 0 .. Cardinality(DOMAIN table)] ==
        IF b = Cardinality(DOMAIN table) THEN <<>> ELSE table[b] \o From[b + 1]
  IN  From[0]

(* Move all items to a new table. *)
ReHash ==
  [b \in 0 .. numBuckets * IncreaseSizeBy - 1 |->
     SelectSeq(Flat(buckets), LAMBDA item : HashValue(getKey[item], numBuckets * IncreaseSizeBy) = b)]

Aborts(who) == abort' = who /\ UNCHANGED <<buckets, numItems, iter, visited, result>>

Grows == numItems \div numBuckets >= ResizeRatio

Insert(item) ==
  LET table == IF Grows THEN ReHash ELSE buckets
      home == HashValue(getKey[item], Cardinality(DOMAIN table))
  IN  IF IsInTable(getKey[item]) THEN Aborts("caller")
      ELSE IF Grows /\ ~(SanityCheck(buckets, numItems) /\ SanityCheck(table, numItems)) THEN Aborts("table")
      ELSE /\ buckets' = [table EXCEPT ![home] = Append(@, item)]
           /\ numItems' = numItems + 1
           /\ result' = None
           /\ UNCHANGED <<iter, visited, abort>>

Remove(key) ==
  IF ~IsInTable(key) THEN Aborts("caller")
  ELSE \E item \in Find(key) :
         /\ buckets' = [buckets EXCEPT ![HashValue(key, numBuckets)] = SelectSeq(@, LAMBDA x : x # item)]
         /\ numItems' = numItems - 1
         /\ result' = <<key, item>>
         /\ UNCHANGED <<iter, visited, abort>>

Lookup(key) ==
  /\ result' \in {key} \X (IF IsInTable(key) THEN Find(key) ELSE {"NULL"})
  /\ UNCHANGED <<buckets, numItems, iter, visited, abort>>

(* Where the iterator stands when it looks for a bucket with items. *)
FindNextFullBucket(bucket) ==
  CHOOSE b \in bucket .. numBuckets :
    /\ b < numBuckets => buckets[b] # <<>>
    /\ \A c \in bucket .. b - 1 : buckets[c] = <<>>

IsDone == iter.bucket = numBuckets
At(bucket) == iter' = [bucket |-> bucket, at |-> 1]

IteratorNew ==
  /\ iter = NoIterator
  /\ At(FindNextFullBucket(0))
  /\ visited' = <<>>
  /\ UNCHANGED <<buckets, numItems, result, abort>>

(* Item, then Next *)
IteratorNext ==
  /\ iter # NoIterator /\ ~IsDone
  /\ visited' = Append(visited, buckets[iter.bucket][iter.at])
  /\ IF iter.at < Len(buckets[iter.bucket]) THEN iter' = [iter EXCEPT !.at = @ + 1]
     ELSE At(FindNextFullBucket(iter.bucket + 1))
  /\ UNCHANGED <<buckets, numItems, result, abort>>

IteratorDelete ==
  /\ iter # NoIterator /\ IsDone
  /\ iter' = NoIterator
  /\ visited' = <<>>
  /\ UNCHANGED <<buckets, numItems, result, abort>>

(* The table does not change under an iterator, which would point to what is *)
(* deleted.                                                                  *)
Next ==
  /\ abort = "no"
  /\ \/ /\ iter = NoIterator
        /\ \E item \in Item : Insert(item) \/ Remove(getKey[item])
     \/ \E key \in Key : Lookup(key)
     \/ IteratorNew \/ IteratorNext \/ IteratorDelete

Spec == Init /\ [][Next]_vars

-----------------------------------------------------------------------------
(* Properties.                                                              *)

Members == {Flat(buckets)[k] : k \in 1 .. Len(Flat(buckets))}

(* SanityCheck holds in every state, not only where ReHash evaluates it. *)
TableIsSane == abort # "table" /\ SanityCheck(buckets, numItems)

(* The iterator has been at every item once when it is done. *)
IteratesOverAll == iter # NoIterator /\ IsDone => Len(visited) = numItems /\ {visited[k] : k \in 1 .. Len(visited)} = Members

(* The table is a set of items by their keys, whatever the hash values are.  *)
Set == INSTANCE KeyedSet WITH items <- Members, ended <- abort # "no"
IsKeyedSet == Set!Spec /\ [](TableIsSane /\ IteratesOverAll)
=============================================================================
