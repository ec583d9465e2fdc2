SPECIFICATION FriendsSpec
CONSTANTS
  Pair = {u1, u2}
  MaxNews = 1
PROPERTY BlockIsUnobservable
CHECK_DEADLOCK FALSE
