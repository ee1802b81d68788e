SPECIFICATION Spec
CONSTANTS
    thread1 = thread1
    thread2 = thread2
    handler = handler
    async = async
    signal = signal
    Senders = {thread1, thread2, handler}
    Handlers = {handler}
    Targets = {async, signal}
    Sort <- MCSort
    Target <- MCTarget
    MaxSends = 3
    PipeRead = 1
    Locking = TRUE
INVARIANTS AsyncInv
PROPERTIES EverySendSeen
