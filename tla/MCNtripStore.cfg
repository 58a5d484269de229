SPECIFICATION MCSpec
CONSTANTS
  NumSlots = 3
  Writers = {"httpd", "self-test"}
  Hosts <- MCHosts
  NoHost = ""
  Posts <- MCPosts
  Enables = {1}
  KeyPosts = {"", "a"}
  Tests <- MCTests
  Settings <- MCSettings
INVARIANTS
  WholeRecovers ReadersSee LegacyRecovers
