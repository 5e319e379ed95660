\* Every function that may be hooked, and every step of the installer failing.
\* The system stops when HookError ends the process.
SPECIFICATION Spec
CONSTANTS
    Word = 8192
    Functions <- MCFunctions
    Proc = 100
    PageEnd = 108
    External = 5000
    Thunk = 4096
    ThunkSize = 256
    Caller = Caller
    Proxy = Proxy
    Null = Null
    Fault = Fault
PROPERTY IsFunctionCall
CHECK_DEADLOCK FALSE
