\* One command at a time, interrupted anywhere, while installations refresh.
CONSTANTS
  one = one
  two = two
  again = again
  three = three
  i1 = i1
  i2 = i2
  i3 = i3
  None = None
  Absent = Absent
  Whole = Whole
  Cut = Cut
  Builds = {one, two, again}
  ReleaseOf <- MCReleaseOf
  Operators = {o1}
  Concurrent = FALSE
  MaxInterrupts = 1
  Percentages = {0, 10, 100}
  Installations = {i1, i2}
  Bucket <- MCBucket
SPECIFICATION FairSpec
INVARIANTS NothingMissing EnvelopesKept StopHolds
PROPERTIES PublishedForward NoOscillation Reaches
