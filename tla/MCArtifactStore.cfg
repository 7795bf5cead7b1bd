\* three uploads of any of the requests, crashes at any step
SPECIFICATION Spec
CONSTANTS
  Uploads = {u1, u2, u3}
  Contents = {"sliced", "large", "bomb", "free", "twice", "linked", "mesh", "turned", "junk", "huge"}
  BytesOf <- MCBytes
  Refused = {"huge"}
  Requests <- MCRequests
  MaxEntries = 3
  MaxUncompressed = 12
  MaxRatio = 4
  Crashes = TRUE
  NoKind = NoKind
  NoUpload = NoUpload
  NoContent = NoContent
SYMMETRY Symmetry
INVARIANTS RowHasBlob RowsAreUsable StoredForGood NoTemporaryLeft SourceKept
PROPERTIES RowsAreImmutable
CHECK_DEADLOCK FALSE
