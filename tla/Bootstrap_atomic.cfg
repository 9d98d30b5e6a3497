\* Two calls, the second of which may be a retry of the first.
CONSTANTS
  Boots = {1, 2}
  Mails = {mail1, mail2}
  Words = {w}
  ChannelNames = {general}
  NoMail = NoMail
  NoBoot = NoBoot
SPECIFICATION BootSpec
INVARIANT BootstrapAtomic
CHECK_DEADLOCK FALSE
