\* Buckets of two and of one entry, so that all of them overflow.
SPECIFICATION Spec
CONSTANTS
  a1 = a1
  a2 = a2
  a3 = a3
  a4 = a4
  Addr <- MCAddr
  Source <- MCSource
  NewBucketOf <- MCNewBucketOf
  TriedBucketOf <- MCTriedBucketOf
  NewBuckets = 2
  TriedBuckets = 1
  NewSize = 2
  TriedSize = 1
  PerAddress = 2
  MaxPct = 75
  GetAddrMax = 2
  MaxIds = 4
SYMMETRY MCSymmetry
INVARIANTS BookConsistent RereadExact
PROPERTIES TriedKept
