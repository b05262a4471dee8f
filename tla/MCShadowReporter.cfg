\* Two replies that may overlap, one change of the network, one lost connection.
SPECIFICATION Spec
CONSTANTS
    Ips = {ip1, ip2}
    Interfaces = {if1, if2}
    Absent = Absent
    Foreign = Foreign
    Replies = {r1, r2}
    MaxGets = 1
    MaxChanges = 1
    MaxFaults = 1
PROPERTIES DriftReported VersionSettles
CHECK_DEADLOCK FALSE
