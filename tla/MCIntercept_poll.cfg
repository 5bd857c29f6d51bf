SPECIFICATION FairSpec
CONSTANTS
  n101 = n101
  n102 = n102
  n103 = n103
  Lists <- MCLists
  Addresses <- MCAddresses
  Classes <- MCClasses
  Names <- MCNames
  Domains <- MCDomains
  Mask = 6
  ReservedIps = {1, 2}
  Literals = {n101, n102, n103}
  Network <- MCNetwork
  Routable = {n101, n103}
  Flows = {f1}
  NoConfig = NoConfig
  NoDomain = NoDomain
  NoService = NoService
  NoName = NoName
  MaxChanges = 2
  MaxErrors = 1
INVARIANTS UpToDate RoutesMatch DnsOwned ResolvesToOwner FlowsCurrent
PROPERTY Converges
