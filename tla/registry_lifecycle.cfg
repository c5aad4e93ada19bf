SPECIFICATION RegistrySpec
CONSTANTS
  Models = {m1, m2}
  Changing = {m1}
  Hashes = {h1, h2}
  First = m1
  None = None
  JobIdentity = release
  ReleaseIdentities = {release}
  MaxSeeds = 2
  MaxSignings = 2
INVARIANT RegistryTypeOK
INVARIANT KnownMirrorsRegistry
PROPERTY SealableStaysKnown
