SPECIFICATION FairSpec
CONSTANTS
  a = a  b = b  None = None
  Name <- TwoNames
  States <- Socket
  MaxClients = 1
INVARIANTS  NoOldCount 
PROPERTIES LabelsStay 
