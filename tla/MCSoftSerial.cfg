SPECIFICATION FairSpec
CONSTANTS
  BufSize = 3
  MaxPi = 4
  MaxHost = 2
INVARIANTS
  TypeOK ListenOrTalk NotDeaf SendsWhatItTakes HostGetsPiBytes
PROPERTIES
  ImplementsQueue SendCompletes ListensInTheEnd
