\* two uploads, no crash
SPECIFICATION Spec
CONSTANTS
  Uploads = {u1, u2}
  Contents = {"sliced", "large", "bomb", "free", "twice", "linked", "mesh", "turned", "junk", "huge"}
  BytesOf <- MCBytes
  Refused = {"huge"}
  Requests <- FewRequests
  MaxEntries = 3
  MaxUncompressed = 12
  MaxRatio = 4
  Crashes = FALSE
  NoKind = NoKind
  NoUpload = NoUpload
  NoContent = NoContent
SYMMETRY Symmetry
INVARIANT DuplicatesAreReused
CHECK_DEADLOCK FALSE
