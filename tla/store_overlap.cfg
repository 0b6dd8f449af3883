\* Two refreshes of the same iOS store in progress at once.
CONSTANTS
  one = one
  two = two
  three = three
  bad = bad
  None = None
  Unreadable = Unreadable
  Builds = {one, two, three, bad}
  Sound = {one, two, three}
  ReleaseOf <- MCReleaseOf
  Platforms = {"ios"}
  Refreshers = {r1, r2}
  Overlap = TRUE
  Minimums = {0}
  MaxDamages = 0
  MaxRestarts = 0
SPECIFICATION Spec
PROPERTY NoDowngrade
