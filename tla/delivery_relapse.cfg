\* The same, one release further: what becomes of a stopped release.
CONSTANTS
  one = one
  two = two
  again = again
  three = three
  i1 = i1
  i2 = i2
  i3 = i3
  None = None
  Absent = Absent
  Whole = Whole
  Cut = Cut
  Builds = {one, two, three}
  ReleaseOf <- MCReleaseOf
  Operators = {o1}
  Concurrent = FALSE
  MaxInterrupts = 0
  Percentages = {0, 10, 100}
  Installations = {i1, i2}
  Bucket <- MCBucket
SPECIFICATION Spec
INVARIANT StopStands
