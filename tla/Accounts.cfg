SPECIFICATION Spec
CONSTANTS
  u1 = u1
  u2 = u2
  u3 = u3
  u4 = u4
  c1 = c1
  c2 = c2
  guest = guest
  admin = admin
  old = old
  new = new
  nobody = nobody
  unset = unset
  User = {u1, u2, u3}
  Client = {c1, c2}
  Email = {guest, admin}
  Guest = guest
  AdminEmail = admin
  Password = {old, new}
  DefaultPassword = old
  Item = {i1}
  Nobody = nobody
  Unset = unset
  FirstUsers <- AdminAndGuest
  MaxOtp = 2
  MaxRequests = 3
  Activities <- EveryActivity
INVARIANTS OtpsStayClosed MailedOtpWorks
PROPERTIES LastAdminStays
CHECK_DEADLOCK FALSE
