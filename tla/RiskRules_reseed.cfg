SPECIFICATION Spec
SYMMETRY MCSymmetry
CONSTANTS
  any = any  apache = apache  none = none  httpd = httpd
  sep = sep  i1 = i1  i2 = i2
  PortNumbers = {80}
  Services = {any, apache}
  AnyService = any
  Texts = {none, httpd}
  Mentions <- MCMentions
  Versions <- MCVersions
  Sep = sep
  Defaults <- MCDefaults
  Bodies <- MCBodies
  Hosts <- MCHosts
  Importers = {i1, i2}
  MaxEdits = 2
  MaxImports = 0
  MaxRestarts = 1
CHECK_DEADLOCK FALSE
PROPERTIES DeletedStayDeleted
