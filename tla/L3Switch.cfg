\* One switch over two hubs.
CONSTANTS
  Hubs = {h1, h2}
SPECIFICATION FairSpec
INVARIANTS TypeOK SessionsMatch
PROPERTIES NoSessionDropped StopAnswered HubsClose FollowsOffline ComesOnline
