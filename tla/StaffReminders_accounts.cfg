CONSTANTS
  boss = boss
  mate = mate
  bossMail = bossMail
  mateMail = mateMail
  freeMail = freeMail
  word = word
  newcomer = newcomer
  Users = {boss, mate, newcomer}
  Emails = {bossMail, mateMail, freeMail}
  Passwords = {word}
  Topics = {k1}
  Values = {v1}
  Seeded <- Seeds
  Edits <- OneEdit
  Learned <- OnlyTheNewcomer
  Requests = {p1, p2}
  NULL = NULL
  Reminders = {r1}
SPECIFICATION Spec
SYMMETRY AnyRequest
INVARIANTS TypeOK SupervisorsDoing PreferencesSurvive
