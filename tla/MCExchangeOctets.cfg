SPECIFICATION Spec
CONSTANTS
  Durations <- MCDurations
  Bodies <- MCBodies
  Keys <- MCKeys
  Contacts <- MCContacts
  Settings <- MCSettings
  Buffers = {0, 16, 44}
  Bursts <- MCBursts
  MaxFramed = 40
  MaxDamaged = 14
INVARIANTS ArrivesAsSaid HeldAsLongAsAsked RefusedIfTooLong DamageNoticed CheckIsStandard ReportAgrees
