SPECIFICATION Spec
CONSTANTS
  u1 = u1
  u2 = u2
  w1 = w1
  w2 = w2
  i1 = i1
  l1 = l1
  Users = {u1, u2}
  Managed = {u1}
  Standings <- AtFirst
  Events = {1, 2}
  Planned = {1}
  InviteOnly = {1}
  Invites = {i1}
  Links = {l1}
  MaxUses = 1
  JoinsAs = "active"
  Moderation <- AllModeration
  Nobody = Nobody
  NoInvite = NoInvite
  Workers = {w1, w2}
SYMMETRY Symmetry
CHECK_DEADLOCK FALSE
INVARIANTS
  TypeOK
  UsesWithinLimit
  InviteServesOne
  ExcludedHasNoBooking
PROPERTIES
  AdminCancelEndsInvite
  ModerationIsCurrent
