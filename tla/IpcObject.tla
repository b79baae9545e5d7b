----------------------------- MODULE IpcObject -----------------------------
(***************************************************************************)
(* struct rt_ipc_object, the parent of semaphore, event, mailbox and       *)
(* message queue: the list of threads that wait for the object.            *)
(***************************************************************************)
EXTENDS IpcThread

CONSTANT Resetters   \* threads that reset the object (RT_IPC_CMD_RESET)

VARIABLE suspend_thread   \* parent.suspend_thread

\* rt_ipc_object_init
rt_ipc_object_init == suspend_thread = <<>>
=============================================================================
