\* Every list of up to three of seven rules or five directives; chains that end anywhere.
SPECIFICATION LegacySpec
CONSTANTS
  proxy = proxy
  inner = inner
  client = client
  get = get
  put = put
  Any = Any
  Malformed = Malformed
  Addresses = {proxy, inner, client}
  Labels = {"example", "www"}
  Operations = {get, put}
  Rules <- Choice
  RuleLists <- UpToThree
  DirectiveLists <- SomeDirectives
  Frontends <- TwoFrontends
  Requests <- SomeRequests
INVARIANTS SourceIsVouchedFor PermittedByRules FirstDirectiveDecides
