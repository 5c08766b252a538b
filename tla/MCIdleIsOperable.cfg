SPECIFICATION Spec
CONSTANTS
 c1=c1
 c2=c2
 Clients <- TwoClients
 QueueCap=2
 WithHub=FALSE
 TrayEnabled=FALSE
INVARIANT IdleIsOperable
