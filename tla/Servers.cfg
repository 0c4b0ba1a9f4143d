SPECIFICATION ServersSpec
 
PROPERTY EndingsEndTheProcess
