SPECIFICATION LiveSpec
CONSTANTS
 c1=c1
 c2=c2
 Clients <- OneClient
 QueueCap=1
 WithHub=TRUE
 TrayEnabled=FALSE
PROPERTY InterruptObeyed
