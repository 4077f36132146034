CONSTANTS
    mom = mom
    dad = dad
    gran = gran
    Parents = {mom, dad, gran}
    FirstParent = {mom}
    MaxPasswords = 2
    MaxMails = 1
    MaxRequests = 2
SYMMETRY Alike
SPECIFICATION Spec
PROPERTIES ParentRemains LinkIsForPassword
