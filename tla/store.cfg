\* One refresh at a time, on every platform, with restarts and damage.
CONSTANTS
  one = one
  two = two
  three = three
  bad = bad
  None = None
  Unreadable = Unreadable
  Builds = {one, two, three, bad}
  Sound = {one, two, three}
  ReleaseOf <- MCReleaseOf
  Platforms = {"android", "ios", "harmony", "desktop"}
  Refreshers = {r1}
  Overlap = FALSE
  Minimums = {0, 2}
  MaxDamages = 1
  MaxRestarts = 1
SPECIFICATION FairSpec
INVARIANTS StoreTypeOK OnlyValidated
PROPERTIES LkgKept NoDowngrade Tidy InstallSpec Recovers
