\* Two users, one of them with changing roles; everything may fail.
SPECIFICATION Spec
CONSTANTS
  Users = {u1, u2}
  Changing = {u1}
  Commands = {"stats"}
  ModTtl = 2
  AdminTtl = 2
  Cooldown = 2
  CallTime = 1
  NoList = NoList
  Faults = {"crash", "redis", "redisLoss", "database", "telegram"}
INVARIANTS
  TypeOK
  PowerIsRecent
  NewPowerIsSeen
PROPERTIES
  CooldownHolds
